---- MODULE Spec2Model ----
(***************************************************************************)
(* Fuzzy irrigation engine (nucleo/motor_difuso.py), its dashboard caller  *)
(* (components/tablero_control.py) and the input validator                 *)
(* (nucleo/utilidades.py).                                                 *)
(*                                                                         *)
(* Number representation.  Python floats are modelled as exact fixed-point *)
(* integers:                                                               *)
(*   readings            hundredths of a unit        (25.04 -> 2504)       *)
(*   plant adjustment    thousandths                 (1.004 -> 1004)       *)
(*   membership degrees  multiples of 1/SCALE        (1.0   -> SCALE)      *)
(*   crisp raw outputs   1/10000 of a unit           (15.0  -> 150000)     *)
(*   returned duration / frequency / confidence      hundredths            *)
(* SCALE is the least common multiple of the slopes' denominators, so the  *)
(* membership of every reading given in hundredths is exact.               *)
(***************************************************************************)
EXTENDS Integers, Sequences, FiniteSets, TLC

SCALE == 32 * 3 * 125 * 7

Min2(a, b) == IF a <= b THEN a ELSE b

Max2(a, b) == IF a >= b THEN a ELSE b

RECURSIVE SumOf(_)
SumOf(xs) == IF xs = {} THEN 0
             ELSE LET x == CHOOSE y \in xs : TRUE IN x + SumOf(xs \ {x})

\* a conjunction that adds the degrees up instead of taking the least
mn_sum(xs) == SumOf(xs)

\* np.min over a non-empty tuple of degrees (mn = lambda *xs: float(np.min(xs)))
mn(xs) == CHOOSE m \in xs : \A y \in xs : m <= y

\* builtin max over a non-empty collection
MaxOf(xs) == CHOOSE m \in xs : \A y \in xs : m >= y

(***************************************************************************)
(* fuzz.trapmf(universe, [a, b, c, d]) evaluated at x, and                 *)
(* fuzz.trimf(universe, [a, b, c]) = trapmf with b = c.  The breakpoints   *)
(* of every set lie on the universe grid, so linear interpolation of the   *)
(* sampled set (interp_membership) is the trapezoid itself.                *)
(***************************************************************************)
\* a trapezoid that excludes its feet even where a foot is a shoulder
trapmf_open(p, x) ==
    IF x <= p[1] \/ x >= p[4] THEN 0
    ELSE IF x < p[2] THEN ((x - p[1]) * SCALE) \div (p[2] - p[1])
    ELSE IF x <= p[3] THEN SCALE
    ELSE ((p[4] - x) * SCALE) \div (p[4] - p[3])

trapmf(p, x) ==
    IF x < p[1] \/ x > p[4] THEN 0
    ELSE IF x < p[2] THEN ((x - p[1]) * SCALE) \div (p[2] - p[1])
    ELSE IF x <= p[3] THEN SCALE
    ELSE ((p[4] - x) * SCALE) \div (p[4] - p[3])

trimf(p, x) == trapmf(<<p[1], p[2], p[2], p[3]>>, x)

\* Universes of discourse, as [min, max] in hundredths (readings) and the
\* membership functions of each antecedent variable.
TEMP_UNIVERSE == <<0, 5000>>
SOIL_UNIVERSE == <<0, 10000>>
RAIN_UNIVERSE == <<0, 10000>>
AIRH_UNIVERSE == <<0, 10000>>
WIND_UNIVERSE == <<0, 5000>>

AnteVars == {"temperatura", "humedad_suelo", "lluvia", "humedad_aire", "viento"}

Universe(var) ==
    CASE var = "temperatura"   -> TEMP_UNIVERSE
      [] var = "humedad_suelo" -> SOIL_UNIVERSE
      [] var = "lluvia"        -> RAIN_UNIVERSE
      [] var = "humedad_aire"  -> AIRH_UNIVERSE
      [] var = "viento"        -> WIND_UNIVERSE

\* _build_system: the named fuzzy sets of the five antecedents
AnteMF(var, label, x) ==
    CASE var = "temperatura" /\ label = "baja"      -> trapmf(<<0, 0, 1000, 2000>>, x)
      [] var = "temperatura" /\ label = "media"     -> trimf(<<1500, 2250, 3000>>, x)
      [] var = "temperatura" /\ label = "alta"      -> trapmf(<<2500, 3000, 5000, 5000>>, x)
      [] var = "humedad_suelo" /\ label = "seca"     -> trapmf(<<0, 0, 1500, 3000>>, x)
      [] var = "humedad_suelo" /\ label = "moderada" -> trapmf(<<2000, 3500, 4500, 6000>>, x)
      [] var = "humedad_suelo" /\ label = "humeda"   -> trapmf(<<5000, 7000, 10000, 10000>>, x)
      [] var = "lluvia" /\ label = "baja"           -> trapmf(<<0, 0, 1500, 3000>>, x)
      [] var = "lluvia" /\ label = "media"          -> trapmf(<<2000, 3500, 4500, 6000>>, x)
      [] var = "lluvia" /\ label = "alta"           -> trapmf(<<5000, 7000, 10000, 10000>>, x)
      [] var = "humedad_aire" /\ label = "baja"     -> trapmf(<<0, 0, 2000, 4000>>, x)
      [] var = "humedad_aire" /\ label = "media"    -> trapmf(<<3000, 4500, 5500, 7000>>, x)
      [] var = "humedad_aire" /\ label = "alta"     -> trapmf(<<6000, 8000, 10000, 10000>>, x)
      [] var = "viento" /\ label = "bajo"           -> trapmf(<<0, 0, 800, 1500>>, x)
      [] var = "viento" /\ label = "medio"          -> trapmf(<<1000, 1800, 2500, 3000>>, x)
      [] var = "viento" /\ label = "alto"           -> trapmf(<<2500, 3500, 5000, 5000>>, x)

\* fuzz.interp_membership(universe, mf, x): the membership of x, zero for an
\* x outside the universe
interp_membership(var, label, x) ==
    IF x < Universe(var)[1] \/ x > Universe(var)[2] THEN 0
    ELSE AnteMF(var, label, x)

(***************************************************************************)
(* Consequents.  TIME_UNIVERSE = linspace(0, 60, 601) and FREQ_UNIVERSE =  *)
(* linspace(0, 4, 401): a point is its grid index (0.1 minute, 0.01 per    *)
(* day), and the sets' breakpoints are given in grid indices.              *)
(***************************************************************************)
TIME_UNIVERSE == 0 .. 600

FREQ_UNIVERSE == 0 .. 400

ConsTerms(var) ==
    IF var = "tiempo" THEN {"nulo", "corto", "medio", "largo"}
    ELSE {"baja", "media", "alta"}

ConsMF(var, label, i) ==
    CASE var = "tiempo" /\ label = "nulo"      -> trapmf(<<0, 0, 30, 50>>, i)
      [] var = "tiempo" /\ label = "corto"     -> trapmf(<<30, 80, 150, 200>>, i)
      [] var = "tiempo" /\ label = "medio"     -> trapmf(<<150, 220, 330, 400>>, i)
      [] var = "tiempo" /\ label = "largo"     -> trapmf(<<350, 450, 600, 600>>, i)
      [] var = "frecuencia" /\ label = "baja"  -> trapmf(<<50, 75, 125, 150>>, i)
      [] var = "frecuencia" /\ label = "media" -> trapmf(<<100, 150, 200, 250>>, i)
      [] var = "frecuencia" /\ label = "alta"  -> trapmf(<<200, 250, 350, 400>>, i)

(***************************************************************************)
(* _create_rules: the 33 rules, in creation order.  ante is the set of     *)
(* (variable, label) pairs joined by &, cons the (consequent, label) pairs *)
(* the rule assigns.                                                       *)
(***************************************************************************)
Rule(a, c) == [ante |-> a, cons |-> c]

\* a temperature clause that always names the set 'media'
T_media(l) == <<"temperatura", "media">>

T(l) == <<"temperatura", l>>
S(l) == <<"humedad_suelo", l>>
L(l) == <<"lluvia", l>>
A(l) == <<"humedad_aire", l>>
V(l) == <<"viento", l>>
TI(l) == <<"tiempo", l>>
FR(l) == <<"frecuencia", l>>

create_rules == <<
    Rule({L("alta")}, {TI("nulo")}),                                          \* R1
    Rule({S("humeda"), L("alta")}, {TI("nulo"), FR("baja")}),                 \* R2
    Rule({S("seca"), L("baja")}, {TI("largo"), FR("alta")}),                  \* R3
    Rule({T("alta"), S("seca")}, {TI("largo")}),                              \* R4
    Rule({A("baja"), S("seca")}, {TI("largo"), FR("alta")}),                  \* R5
    Rule({S("seca"), V("alto")}, {TI("largo")}),                              \* R6
    Rule({S("seca"), T("alta"), L("baja"), V("alto")}, {TI("largo"), FR("alta")}), \* R7
    Rule({S("humeda")}, {TI("corto"), FR("baja")}),                           \* R8
    Rule({T("baja"), A("alta")}, {TI("corto")}),                              \* R9
    Rule({S("moderada"), L("media")}, {TI("corto")}),                         \* R10
    Rule({A("alta"), L("media")}, {TI("corto")}),                             \* R11
    Rule({T("baja"), L("alta")}, {TI("nulo")}),                               \* R12
    Rule({V("alto"), T("alta")}, {FR("alta")}),                               \* R13
    Rule({V("alto"), L("baja")}, {FR("alta")}),                               \* R14
    Rule({T("alta"), V("medio")}, {FR("alta")}),                              \* R15
    Rule({A("baja"), V("alto")}, {FR("alta")}),                               \* R16
    Rule({T("media"), S("moderada")}, {TI("medio")}),                         \* R17
    Rule({T("alta"), A("baja"), V("bajo")}, {TI("largo")}),                   \* R18
    Rule({S("moderada"), V("bajo")}, {FR("media")}),                          \* R19
    Rule({A("media"), L("baja")}, {TI("medio")}),                             \* R20
    Rule({T("media"), L("baja")}, {FR("media")}),                             \* R21
    Rule({V("bajo"), L("baja")}, {FR("media")}),                              \* R22
    Rule({T("media"), A("media"), L("media")}, {TI("medio"), FR("media")}),   \* R23
    Rule({T("baja"), S("moderada")}, {TI("corto")}),                          \* R24
    Rule({L("media"), V("medio")}, {FR("media")}),                            \* R25
    Rule({T("alta"), L("media"), V("alto")}, {TI("medio")}),                  \* R26
    Rule({T("media"), A("baja"), S("seca")}, {TI("largo")}),                  \* R27
    Rule({T("alta"), A("alta")}, {FR("media")}),                              \* R28
    Rule({S("seca"), A("baja"), L("media")}, {TI("medio")}),                  \* R29
    Rule({S("moderada"), A("alta"), L("baja")}, {TI("medio")}),               \* R30
    Rule({S("humeda"), T("alta")}, {FR("media")}),                            \* R31
    Rule({V("alto"), A("baja")}, {TI("medio")}),                              \* R32
    Rule({V("bajo"), A("alta")}, {FR("baja")})                                \* R33
>>

RuleIds == 1 .. 33

(***************************************************************************)
(* self._sim: the ControlSystemSimulation built over the rules.            *)
(*   sim.input[var] = value   clips the value to the variable's universe   *)
(*   sim.compute()            fuzzifies, fires every rule with AND = min,  *)
(*                            accumulates each consequent term with max,   *)
(*                            clips each term at its cut, aggregates with  *)
(*                            max and takes the centroid; it raises when   *)
(*                            the aggregated curve of a consequent is      *)
(*                            empty or all zero.                           *)
(***************************************************************************)
sim_clip(var, value) == Max2(Universe(var)[1], Min2(Universe(var)[2], value))

\* firing strength of one rule for the simulation's inputs
sim_firing(r, inp) ==
    mn({interp_membership(p[1], p[2], inp[p[1]]) : p \in r.ante})

\* the cut of a consequent term: max over the rules that assign it; -1 when
\* no rule assigns it (membership_value is None)
sim_cut(var, label, inp) ==
    LET rs == {i \in RuleIds : <<var, label>> \in create_rules[i].cons}
    IN IF rs = {} THEN -1
       ELSE MaxOf({sim_firing(create_rules[i], inp) : i \in rs})

\* the cuts of all terms of a consequent
sim_cuts(var, inp) == [l \in ConsTerms(var) |-> sim_cut(var, l, inp)]

\* aggregated output curve at grid point i
sim_aggregate(var, cuts, i) ==
    MaxOf({Min2(cuts[l], ConsMF(var, l, i)) : l \in {t \in DOMAIN cuts : cuts[t] >= 0}}
          \cup {0})

\* number of grid points of a consequent's universe, less one, and the size
\* of one grid step in 1/10000 of a unit, as a power of ten
GridMax(var) == IF var = "tiempo" THEN 600 ELSE 400

GridDigits(var) == IF var = "tiempo" THEN 3 ELSE 2

(***************************************************************************)
(* Centroid of the aggregated curve over the grid 0..n, as the             *)
(* area-weighted mean of the segments between neighbouring grid points.    *)
(* The segment joining points i-1 and i with heights y1, y2 has area       *)
(* (y1+y2)/2 and moment of area ((i-1)(2 y1 + y2) + i (y1 + 2 y2))/6.      *)
(* Summed over the segments, grid point i carries the weight               *)
(*    area:   2 y_i        (y_i at the two end points),                    *)
(*    moment: 6 i y_i      (y_0 at point 0, (3n-1) y_n at point n),        *)
(* both to be divided by 6 and by 2.  The moment exceeds 32 bits, so it is *)
(* carried as <<high, low>> in base BASE.                                  *)
(***************************************************************************)
BASE == 2 ^ 20

\* <<area, moment high, moment low>> carried by grid point i at height y
PointSums(var, i, y) ==
    LET w == IF i = 0 THEN 1 ELSE IF i = GridMax(var) THEN 3 * i - 1 ELSE 6 * i
    IN <<(IF i = 0 \/ i = GridMax(var) THEN 1 ELSE 2) * y,
         (w * y) \div BASE, (w * y) % BASE>>

AddSums(a, b) ==
    <<a[1] + b[1], a[2] + b[2] + ((a[3] + b[3]) \div BASE), (a[3] + b[3]) % BASE>>

\* <<area, moment high, moment low>> of the grid points lo..hi
RECURSIVE CurveSums(_, _, _, _)
CurveSums(var, cuts, lo, hi) ==
    IF lo = hi
    THEN CHOOSE r \in {PointSums(var, lo, y) : y \in {sim_aggregate(var, cuts, lo)}} : TRUE
    ELSE CHOOSE r \in UNION {{AddSums(a, b) : a \in {CurveSums(var, cuts, lo, mid)},
                                              b \in {CurveSums(var, cuts, mid + 1, hi)}}
                             : mid \in {(lo + hi) \div 2}} : TRUE

\* <<quotient, remainder>> of (r * 2^k + the top k bits of low) by d, for
\* r < d: long division, one bit a step
RECURSIVE LongDiv(_, _, _, _, _)
LongDiv(q, r, low, k, d) ==
    IF k = 0 THEN <<q, r>>
    ELSE LET bit == (low \div (2 ^ (k - 1))) % 2
             r2  == 2 * r + bit
         IN LongDiv(2 * q + (r2 \div d), r2 % d, low, k - 1, d)

\* the next n decimal digits of r / d, for 0 <= r < d
RECURSIVE FracDigits(_, _, _)
FracDigits(r, d, n) ==
    IF n = 0 THEN 0
    ELSE LET a  == (r * 2) \div d
             r1 == (r * 2) % d
             b  == (r1 * 5) \div d
             r2 == (r1 * 5) % d
         IN (a * 5 + b) * (10 ^ (n - 1)) + FracDigits(r2, d, n - 1)

\* defuzz: raises when the total area is zero, else yields the crisp value
\* in 1/10000 of a unit
\* a defuzzification that yields 0 for a curve of zero area
DefuzzZero == [raised |-> FALSE, value |-> 0]

\* defuzz of a curve of zero area: compute() raises ValueError
DefuzzError == [raised |-> TRUE, value |-> 0]

Centroid(var, sums) ==
    LET area == 3 * sums[1]
    IN IF area = 0 THEN DefuzzError
       ELSE CHOOSE r \in
              {[raised |-> FALSE,
                value  |-> qr[1] * (10 ^ GridDigits(var))
                           + FracDigits(qr[2], area, GridDigits(var))]
               : qr \in {LongDiv(sums[2] \div area, sums[2] % area, sums[3], 20, area)}}
              : TRUE

sim_centroid(var, cuts) ==
    CHOOSE r \in {Centroid(var, sums) : sums \in {CurveSums(var, cuts, 0, GridMax(var))}}
    : TRUE

sim_defuzz(var, inp) ==
    CHOOSE r \in {sim_centroid(var, cuts) : cuts \in {sim_cuts(var, inp)}} : TRUE

(***************************************************************************)
(* State.                                                                  *)
(*   cache      self._cache: a dict, kept as the sequence of its           *)
(*              [key, val] items in insertion order                        *)
(*   sim        self._sim: the inputs set so far and the outputs of the    *)
(*              last successful computations                               *)
(*   centroids  the crisp value of both consequents for every input record *)
(*              the simulation can be given: a pure function of the        *)
(*              record, evaluated once and never changed                   *)
(*   last       the last completed top-level operation of the sequential   *)
(*              caller: its arguments and what it returned                 *)
(*   hist       for each argument tuple, what the most recent              *)
(*              calculate_irrigation call with it returned                 *)
(*   nops       number of operations started                               *)
(*   frame      concurrent callers: each caller's position and locals      *)
(*   born       for each key in the cache, the number of the operation     *)
(*              that inserted it (zero or less: before the first one)      *)
(*   history    data/history.csv and data/history.jsonl                    *)
(*   weather    weather_api: _CACHE, the clock and the requests issued     *)
(***************************************************************************)
VARIABLES cache, sim, centroids, last, hist, nops, frame, born, history, weather

vars == <<cache, sim, centroids, last, hist, nops, frame, born, history, weather>>

\* round(x, ndigits) for a value given with one more decimal digit than is
\* kept: ties go to the even neighbour
RoundHalfEven(n, d) ==
    LET q == n \div d
        r == n % d
    IN IF 2 * r < d THEN q
       ELSE IF 2 * r > d THEN q + 1
       ELSE IF q % 2 = 0 THEN q ELSE q + 1

\* the five readings of an argument record, by antecedent
Readings(args) ==
    [temperatura   |-> args.temperature,
     humedad_suelo |-> args.soil_humidity,
     lluvia        |-> args.rain_probability,
     humedad_aire  |-> args.air_humidity,
     viento        |-> args.wind_speed]

\* cache_key: readings rounded to 0.1, adjustment rounded to 0.01
cache_key(args) ==
    <<RoundHalfEven(args.temperature, 10), RoundHalfEven(args.soil_humidity, 10),
      RoundHalfEven(args.rain_probability, 10), RoundHalfEven(args.air_humidity, 10),
      RoundHalfEven(args.wind_speed, 10), RoundHalfEven(args.ajuste_planta, 10)>>

\* dict operations on the cache
CacheHas(c, k) == \E i \in 1 .. Len(c) : c[i].key = k

CacheGet(c, k) == c[CHOOSE i \in 1 .. Len(c) : c[i].key = k].val

CacheSet(c, k, v) ==
    IF CacheHas(c, k)
    THEN [i \in 1 .. Len(c) |-> IF c[i].key = k THEN [key |-> k, val |-> v] ELSE c[i]]
    ELSE Append(c, [key |-> k, val |-> v])

CACHE_MAX == 100

\* a store that never evicts, and one that evicts the newest entry
CacheStoreUnbounded(c, k, v) == CacheSet(c, k, v)

CacheStoreNewestOut(c, k, v) ==
    CacheSet(IF Len(c) >= CACHE_MAX THEN SubSeq(c, 1, Len(c) - 1) ELSE c, k, v)

\* if len(self._cache) >= 100: self._cache.pop(next(iter(self._cache)))
\* self._cache[cache_key] = resultado
CacheStore(c, k, v) ==
    CacheSet(IF Len(c) >= CACHE_MAX THEN Tail(c) ELSE c, k, v)

\* a simulation whose adjustment is taken as given, and one whose duration
\* is not clamped to the time universe
ClampAjusteAbsent(ajuste_planta) == ajuste_planta

\* the clamp with its bounds exchanged: min(0.3, max(1.5, ajuste_planta))
ClampAjusteExchanged(ajuste_planta) == Min2(300, Max2(1500, ajuste_planta))

\* an output read under a key the simulation never stores: always the default
OutputDefault(s, var, default) == default

AdjustTiempoUnclamped(tiempo_raw, ajuste) == RoundHalfEven(tiempo_raw * ajuste, 100000)

\* return 15.0, 2.0, {}
Fallback == <<1500, 200, <<>>>>

\* self._sim.input[var] = float(value)
SimSetInput(s, var, value) ==
    [s EXCEPT !.input = (var :> sim_clip(var, value)) @@ @]

\* self._sim.compute(): raises when an antecedent has no input or a
\* consequent cannot be defuzzified; the consequents are defuzzified in
\* order, tiempo first, each output stored as soon as it is known
SimCompute(s) ==
    IF DOMAIN s.input # AnteVars THEN [raised |-> TRUE, sim |-> s]
    ELSE LET c == centroids[s.input]
         IN IF c.tiempo.raised THEN [raised |-> TRUE, sim |-> s]
            ELSE IF c.frecuencia.raised
            THEN [raised |-> TRUE,
                  sim |-> [s EXCEPT !.output = ("tiempo" :> c.tiempo.value) @@ @]]
            ELSE [raised |-> FALSE,
                  sim |-> [s EXCEPT !.output = ("tiempo" :> c.tiempo.value)
                                               @@ ("frecuencia" :> c.frecuencia.value) @@ @]]

\* dict.get(key, default) on the simulation's outputs
OutputGet(s, var, default) ==
    IF var \in DOMAIN s.output THEN s.output[var] ELSE default

\* ajuste = max(0.3, min(1.5, float(ajuste_planta)))
ClampAjuste(ajuste_planta) == Max2(300, Min2(1500, ajuste_planta))

\* tiempo = round(max(0.0, min(60.0, tiempo_raw * ajuste)), 2)
AdjustTiempo(tiempo_raw, ajuste) ==
    RoundHalfEven(Max2(0, Min2(600000000, tiempo_raw * ajuste)), 100000)

\* frecuencia = round(max(0.5, min(4.0, frecuencia_raw * (0.85 + 0.3 * ajuste))), 2)
AdjustFrecuencia(frecuencia_raw, ajuste) ==
    RoundHalfEven(Max2(50000000, Min2(400000000, frecuencia_raw * (8500 + 3 * ajuste))),
                  1000000)

(***************************************************************************)
(* get_rule_activations: the membership degrees of the raw readings and    *)
(* the hand-written activation of each rule.                               *)
(***************************************************************************)
Degrees(r) ==
    [t_baja     |-> interp_membership("temperatura", "baja", r.temperatura),
     t_media    |-> interp_membership("temperatura", "media", r.temperatura),
     t_alta     |-> interp_membership("temperatura", "alta", r.temperatura),
     s_seca     |-> interp_membership("humedad_suelo", "seca", r.humedad_suelo),
     s_moderada |-> interp_membership("humedad_suelo", "moderada", r.humedad_suelo),
     s_humeda   |-> interp_membership("humedad_suelo", "humeda", r.humedad_suelo),
     l_baja     |-> interp_membership("lluvia", "baja", r.lluvia),
     l_media    |-> interp_membership("lluvia", "media", r.lluvia),
     l_alta     |-> interp_membership("lluvia", "alta", r.lluvia),
     a_baja     |-> interp_membership("humedad_aire", "baja", r.humedad_aire),
     a_media    |-> interp_membership("humedad_aire", "media", r.humedad_aire),
     a_alta     |-> interp_membership("humedad_aire", "alta", r.humedad_aire),
     v_bajo     |-> interp_membership("viento", "bajo", r.viento),
     v_medio    |-> interp_membership("viento", "medio", r.viento),
     v_alto     |-> interp_membership("viento", "alto", r.viento)]

Activations(deg) == <<
    deg.l_alta,                                          \* R1
    mn({deg.s_humeda, deg.l_alta}),                      \* R2
    mn({deg.s_seca, deg.l_baja}),                        \* R3
    mn({deg.t_alta, deg.s_seca}),                        \* R4
    mn({deg.a_baja, deg.s_seca}),                        \* R5
    mn({deg.s_seca, deg.v_alto}),                        \* R6
    mn({deg.s_seca, deg.t_alta, deg.l_baja, deg.v_alto}), \* R7
    deg.s_humeda,                                        \* R8
    mn({deg.t_baja, deg.a_alta}),                        \* R9
    mn({deg.s_moderada, deg.l_media}),                   \* R10
    mn({deg.a_alta, deg.l_media}),                       \* R11
    mn({deg.t_baja, deg.l_alta}),                        \* R12
    mn({deg.v_alto, deg.t_alta}),                        \* R13
    mn({deg.v_alto, deg.l_baja}),                        \* R14
    mn({deg.t_alta, deg.v_medio}),                       \* R15
    mn({deg.a_baja, deg.v_alto}),                        \* R16
    mn({deg.t_media, deg.s_moderada}),                   \* R17
    mn({deg.t_alta, deg.a_baja, deg.v_bajo}),            \* R18
    mn({deg.s_moderada, deg.v_bajo}),                    \* R19
    mn({deg.a_media, deg.l_baja}),                       \* R20
    mn({deg.t_media, deg.l_baja}),                       \* R21
    mn({deg.v_bajo, deg.l_baja}),                        \* R22
    mn({deg.t_media, deg.a_media, deg.l_media}),         \* R23
    mn({deg.t_baja, deg.s_moderada}),                    \* R24
    mn({deg.l_media, deg.v_medio}),                      \* R25
    mn({deg.t_alta, deg.l_media, deg.v_alto}),           \* R26
    mn({deg.t_media, deg.a_baja, deg.s_seca}),           \* R27
    mn({deg.t_alta, deg.a_alta}),                        \* R28
    mn({deg.s_seca, deg.a_baja, deg.l_media}),           \* R29
    mn({deg.s_moderada, deg.a_alta, deg.l_baja}),        \* R30
    mn({deg.s_humeda, deg.t_alta}),                      \* R31
    mn({deg.v_alto, deg.a_baja}),                        \* R32
    mn({deg.v_bajo, deg.a_alta})                         \* R33
>>

\* the activations without the last rule
activations_but_last(r) ==
    CHOOSE a \in {SubSeq(Activations(deg), 1, 32) : deg \in {Degrees(r)}} : TRUE

get_rule_activations(r) ==
    CHOOSE a \in {Activations(deg) : deg \in {Degrees(r)}} : TRUE

(***************************************************************************)
(* calculate_irrigation, as one uninterrupted call on cache c and          *)
(* simulation s.  args.numeric = FALSE stands for a call in which some     *)
(* argument is not a number (None, a string): round() raises TypeError     *)
(* before the try block.  path names the return taken.                     *)
(***************************************************************************)
SetInputs(s, args) ==
    SimSetInput(SimSetInput(SimSetInput(SimSetInput(SimSetInput(s,
        "temperatura", args.temperature),
        "humedad_suelo", args.soil_humidity),
        "lluvia", args.rain_probability),
        "humedad_aire", args.air_humidity),
        "viento", args.wind_speed)

\* lines 208-224: the result tuple built from the simulation's outputs
Resultado(s, args) ==
    LET ajuste == ClampAjuste(args.ajuste_planta)
    IN <<AdjustTiempo(OutputGet(s, "tiempo", 150000), ajuste),
         AdjustFrecuencia(OutputGet(s, "frecuencia", 20000), ajuste),
         get_rule_activations(Readings(args))>>

calculate_irrigation(c, s, args) ==
    IF ~args.numeric
    THEN [raised |-> TRUE, path |-> "type_error", ret |-> Fallback, cache |-> c, sim |-> s]
    ELSE IF CacheHas(c, cache_key(args))
    THEN [raised |-> FALSE, path |-> "hit", ret |-> CacheGet(c, cache_key(args)),
          cache |-> c, sim |-> s]
    ELSE LET cmp == SimCompute(SetInputs(s, args))
         IN IF cmp.raised
               \/ "tiempo" \notin DOMAIN cmp.sim.output
               \/ "frecuencia" \notin DOMAIN cmp.sim.output
            THEN [raised |-> FALSE, path |-> "fallback", ret |-> Fallback,
                  cache |-> c, sim |-> cmp.sim]
            ELSE [raised |-> FALSE, path |-> "computed", ret |-> Resultado(cmp.sim, args),
                  cache |-> CacheStore(c, cache_key(args), Resultado(cmp.sim, args)),
                  sim |-> cmp.sim]

(***************************************************************************)
(* Confidence, in 1/10000.                                                 *)
(***************************************************************************)
RECURSIVE SumSeq(_)
SumSeq(q) == IF q = <<>> THEN 0 ELSE q[1] + SumSeq(Tail(q))

Values(act) == {act[i] : i \in DOMAIN act}

\* _calculate_confidence: round(0.6 * max_act + 0.4 * proporcion, 2)
calculate_confidence(act) ==
    IF DOMAIN act = {} THEN 0
    ELSE LET n == Cardinality(DOMAIN act)
             max_act == MaxOf(Values(act))
             reglas_fuertes == Cardinality({i \in DOMAIN act : 2 * act[i] > SCALE})
         IN 100 * RoundHalfEven(60 * max_act * n + 40 * reglas_fuertes * SCALE, SCALE * n)

\* x ** 0.85 for x in [0,1], both in 1/10000: the exact value at every
\* multiple of 0.05, linear in between
Pow085Table == <<0, 784, 1413, 1994, 2546, 3078, 3594, 4097, 4589, 5073, 5548,
                 6016, 6478, 6934, 7385, 7831, 8272, 8710, 9143, 9573, 10000>>

Pow085(x) ==
    IF x >= 10000 THEN 10000
    ELSE LET k == x \div 500
         IN Pow085Table[k + 1]
            + ((Pow085Table[k + 2] - Pow085Table[k + 1]) * (x % 500)) \div 500

\* the peak-weighted score with the consensus bonus and no cap at 1.0
peak_weighted_uncapped(act) ==
    IF DOMAIN act = {} THEN 7500
    ELSE LET n == Cardinality(DOMAIN act)
             max_a == (MaxOf(Values(act)) * 10000) \div SCALE
             mean_a == ((SumSeq(act) \div n) * 10000) \div SCALE
             conf == (7 * Pow085(max_a) + 3 * Pow085(mean_a)) \div 10
             strong_rules == Cardinality({i \in DOMAIN act : 10 * act[i] > 3 * SCALE})
         IN IF strong_rules >= 3 THEN (conf * 115) \div 100 ELSE conf

\* render_dashboard.peak_weighted_confidence(act, w_max=0.7, alpha=0.85)
peak_weighted_confidence(act) ==
    IF DOMAIN act = {} THEN 7500
    ELSE LET n == Cardinality(DOMAIN act)
             max_a == (MaxOf(Values(act)) * 10000) \div SCALE
             mean_a == ((SumSeq(act) \div n) * 10000) \div SCALE
             conf == (7 * Pow085(max_a) + 3 * Pow085(mean_a)) \div 10
             strong_rules == Cardinality({i \in DOMAIN act : 10 * act[i] > 3 * SCALE})
         IN Min2(10000, IF strong_rules >= 3 THEN Min2(10000, (conf * 115) \div 100)
                        ELSE conf)

\* the dashboard warns when confianza < 0.45
LowConfidence(confianza) == confianza < 4500

(***************************************************************************)
(* validate_inputs: the name of the first reading out of range, "" when    *)
(* all are in range (no exception).                                        *)
(***************************************************************************)
\* the checks with the temperature bound of the engine's universe, 50
validate_inputs_universe(r) ==
    IF ~(0 <= r.temperatura /\ r.temperatura <= 5000) THEN "temperatura"
    ELSE IF ~(0 <= r.humedad_suelo /\ r.humedad_suelo <= 10000) THEN "humedad del suelo"
    ELSE IF ~(0 <= r.lluvia /\ r.lluvia <= 10000) THEN "probabilidad de lluvia"
    ELSE IF ~(0 <= r.humedad_aire /\ r.humedad_aire <= 10000) THEN "humedad ambiental"
    ELSE IF ~(0 <= r.viento /\ r.viento <= 5000) THEN "velocidad del viento"
    ELSE ""

validate_inputs(r) ==
    IF ~(0 <= r.temperatura /\ r.temperatura <= 4500) THEN "temperatura"
    ELSE IF ~(0 <= r.humedad_suelo /\ r.humedad_suelo <= 10000) THEN "humedad del suelo"
    ELSE IF ~(0 <= r.lluvia /\ r.lluvia <= 10000) THEN "probabilidad de lluvia"
    ELSE IF ~(0 <= r.humedad_aire /\ r.humedad_aire <= 10000) THEN "humedad ambiental"
    ELSE IF ~(0 <= r.viento /\ r.viento <= 5000) THEN "velocidad del viento"
    ELSE ""

(***************************************************************************)
(* nucleo/utilidades.py: the history files.  A record is the sequence of   *)
(* its <<key, value>> items in insertion order; a value is <<"num", n>>    *)
(* (n in hundredths) or <<"str", s>>.  history.csv is its header line and  *)
(* its data lines, each the sequence of its cells' texts; history.jsonl is *)
(* the sequence of the records written.  history.saved (not a file) holds  *)
(* the records passed to save_history since the last clear_history.        *)
(***************************************************************************)
HistoryColumns ==
    <<"ts", "temperatura", "humedad_suelo", "prob_lluvia", "humedad_ambiental",
      "viento", "planta", "tiempo_min", "frecuencia">>

\* DataFrame.to_csv of one value: the decimal text of a number, the text
\* of a string
CsvText(v) == IF v[1] = "num" THEN <<"digits", v[2]>> ELSE <<"chars", v[2]>>

\* read_csv of one cell: a number for decimal text, NaN for an empty cell
NaN == <<"nan", 0>>

CsvParse(c) ==
    IF c[1] = "digits" THEN <<"num", c[2]>>
    ELSE IF c[2] = "" THEN NaN
    ELSE <<"str", c[2]>>

\* ensure_data_files(): create what does not exist
ensure_data_files(h) ==
    [h EXCEPT !.csv = IF @.exists THEN @
                      ELSE [exists |-> TRUE, header |-> HistoryColumns, rows |-> <<>>],
              !.jsonl = IF @.exists THEN @
                        ELSE [exists |-> TRUE, header |-> <<>>, rows |-> <<>>]]

\* save_history(record): one data line with the record's values in the
\* record's order (header=False), one JSON line
save_history(h, record) ==
    [ensure_data_files(h) EXCEPT
        !.csv.rows = Append(@, [i \in DOMAIN record |-> CsvText(record[i][2])]),
        !.jsonl.rows = Append(@, record),
        !.saved = Append(@, record)]

\* clear_history(): both files rewritten, the CSV with its header only
clear_history(h) ==
    [csv |-> [exists |-> TRUE, header |-> HistoryColumns, rows |-> <<>>],
     jsonl |-> [exists |-> TRUE, header |-> <<>>, rows |-> <<>>],
     saved |-> <<>>,
     historico |-> h.historico]

\* pd.read_csv(HISTORY_CSV): the first data line fixes the width; fields
\* beyond the header's count lead the line as its index; a later line with
\* more fields raises ParserError; a shorter line is filled with NaN
ReadCsvWidth(f) == Max2(Len(f.header), Len(f.rows[1]))

ReadCsvRaises(f) == \E i \in DOMAIN f.rows : Len(f.rows[i]) > ReadCsvWidth(f)

read_csv(f) ==
    IF f.rows = <<>> THEN <<>>
    ELSE [i \in DOMAIN f.rows |->
            [name \in {f.header[j] : j \in DOMAIN f.header} |->
               LET j == CHOOSE k \in DOMAIN f.header : f.header[k] = name
                   at == j + ReadCsvWidth(f) - Len(f.header)
               IN IF at <= Len(f.rows[i]) THEN CsvParse(f.rows[i][at]) ELSE NaN]]

\* load_history(): the frame read, an empty frame when reading raises
load_history(h) ==
    IF ReadCsvRaises(ensure_data_files(h).csv) THEN <<>>
    ELSE read_csv(ensure_data_files(h).csv)

(***************************************************************************)
(* calcular_riego(inputs).  inputs is a dict from Spanish keys to values;  *)
(* a value is <<"num", n>> or <<"str", 0>> (text that float() rejects).    *)
(***************************************************************************)
DictGet(d, k, default) == IF k \in DOMAIN d THEN d[k] ELSE default

Num(n) == <<"num", n>>

\* the six values read from the dict, with the defaults of lines 240-245
RiegoValues(inputs) ==
    <<DictGet(inputs, "temperatura", Num(2500)),
      DictGet(inputs, "humedad_suelo", Num(5000)),
      DictGet(inputs, "prob_lluvia", DictGet(inputs, "lluvia", Num(2000))),
      DictGet(inputs, "humedad_ambiente", DictGet(inputs, "humedad_aire", Num(5000))),
      DictGet(inputs, "velocidad_viento", DictGet(inputs, "viento", Num(1000))),
      DictGet(inputs, "planta_factor", DictGet(inputs, "ajuste_planta", Num(1000)))>>

\* float(v) raises ValueError on text
FloatRaises(vs) == \E i \in 1 .. Len(vs) : vs[i][1] # "num"

RiegoArgs(inputs) ==
    LET vs == RiegoValues(inputs)
    IN [temperature |-> vs[1][2], soil_humidity |-> vs[2][2],
        rain_probability |-> vs[3][2], air_humidity |-> vs[4][2],
        wind_speed |-> vs[5][2], ajuste_planta |-> vs[6][2],
        numeric |-> ~FloatRaises(vs)]

\* the dict returned by the except branch (lines 265-272)
RiegoError == [tiempo |-> 0, frecuencia |-> 0, reglas_activadas |-> <<>>,
               confianza |-> 0, error |-> TRUE]

\* lines 247-263: the dict built from what calculate_irrigation returned
RiegoResult(r) ==
    IF r.raised
    THEN [out |-> RiegoError, path |-> "except", cache |-> r.cache, sim |-> r.sim]
    ELSE [out |-> [tiempo |-> r.ret[1], frecuencia |-> r.ret[2],
                   reglas_activadas |-> r.ret[3],
                   confianza |-> calculate_confidence(r.ret[3]),
                   error |-> FALSE],
          path |-> r.path, cache |-> r.cache, sim |-> r.sim]

calcular_riego(c, s, inputs) ==
    IF FloatRaises(RiegoValues(inputs))
    THEN [out |-> RiegoError, path |-> "except", cache |-> c, sim |-> s]
    ELSE CHOOSE o \in {RiegoResult(r) : r \in {calculate_irrigation(c, s, RiegoArgs(inputs))}}
         : TRUE

(***************************************************************************)
(* Inputs of the model.                                                    *)
(***************************************************************************)
MaxOps == 3

Args(t, s, l, a, v, adj) ==
    [temperature |-> t, soil_humidity |-> s, rain_probability |-> l,
     air_humidity |-> a, wind_speed |-> v, ajuste_planta |-> adj, numeric |-> TRUE]

\* balanced conditions, and a reading 0.04 away that rounds to the same key
ArgNormal == Args(2500, 6000, 3000, 5000, 1000, 1000)
ArgNormalNear == Args(2504, 6000, 3000, 5000, 1000, 1000)
\* no rule assigning tiempo fires, and a wind 0.04 lower at which R18 fires
ArgNoTiempo == Args(4000, 4000, 1000, 1000, 1500, 1000)
ArgNoTiempoNear == Args(4000, 4000, 1000, 1000, 1496, 1000)
ArgNoTiempoHigh == Args(4000, 4000, 1000, 1000, 1500, 1500)
\* no rule assigning frecuencia fires
ArgNoFrecuencia == Args(2500, 1000, 4000, 9000, 4000, 1000)
\* dry soil, with adjustments above, at, and below the clamp bounds
ArgDryHigh == Args(4000, 1000, 1000, 1000, 1000, 2000)
ArgDryMax == Args(4000, 1000, 1000, 1000, 1000, 1500)
ArgDryLow == Args(4000, 1000, 1000, 1000, 1000, 100)
ArgDryMin == Args(4000, 1000, 1000, 1000, 1000, 300)
\* inside the engine's domain, rejected by validate_inputs
ArgHot == Args(4600, 6000, 3000, 5000, 1000, 1000)
\* some argument is not a number
ArgNotNumber == [ArgNormal EXCEPT !.numeric = FALSE]
\* hot, dry soil, little rain expected
ArgDrySoil == Args(3500, 1000, 500, 3000, 1000, 1000)
\* the same mild conditions with little and with much rain expected
ArgRainLow == Args(2200, 6000, 1000, 8000, 800, 1000)
ArgRainHigh == Args(2200, 6000, 8500, 8000, 800, 1000)
\* a temperature at the foot of temperature['alta'], and 0.1 above it
ArgStepLow == Args(2500, 2000, 6000, 10000, 1000, 1000)
ArgStepHigh == Args(2510, 2000, 6000, 10000, 1000, 1000)
\* a temperature beyond each end of the universe, and the end itself
ArgTempOver == Args(5500, 6000, 3000, 5000, 1000, 1000)
ArgTempMax == Args(5000, 6000, 3000, 5000, 1000, 1000)
ArgTempUnder == Args(-500, 4000, 3000, 5000, 1000, 1000)
ArgTempMin == Args(0, 4000, 3000, 5000, 1000, 1000)

ArgsSet == {ArgNormal, ArgNormalNear, ArgNoTiempo, ArgNoTiempoNear, ArgNoTiempoHigh,
            ArgNoFrecuencia,
            ArgDryHigh, ArgDryMax, ArgDryLow, ArgDryMin, ArgHot}

DictSet == {
    [temperatura |-> Num(2500), humedad_suelo |-> Num(6000), prob_lluvia |-> Num(3000),
     humedad_ambiente |-> Num(5000), velocidad_viento |-> Num(1000),
     planta_factor |-> Num(1000)],
    [temperatura |-> Num(4000), humedad_suelo |-> Num(4000), lluvia |-> Num(1000),
     humedad_aire |-> Num(1000), viento |-> Num(1500)],
    [temperatura |-> <<"str", 0>>],
    [humedad_suelo |-> Num(6000), lluvia |-> Num(3000)] }

DashboardSet == {ArgNormal, ArgNoTiempo, ArgNoFrecuencia, ArgHot}

\* the edge-case scenarios and the out-of-range readings
ProbeSet == {ArgDrySoil, ArgRainLow, ArgRainHigh, ArgStepLow, ArgStepHigh,
             ArgTempOver, ArgTempMax, ArgTempUnder, ArgTempMin}

ClipReadings(r) == [v \in AnteVars |-> sim_clip(v, r[v])]

\* the arguments of the concurrent callers
ConcArgs == {ArgNormal, ArgDryMax}

\* the input records two interleaved callers can leave in the simulation:
\* each antecedent holds the value of whoever set it last
MixedInputs ==
    {[v \in AnteVars |-> IF v \in own THEN ClipReadings(Readings(a))[v]
                                        ELSE ClipReadings(Readings(b))[v]]
     : own \in SUBSET AnteVars, a \in ConcArgs, b \in ConcArgs}

\* every input record the simulation is given
SimInputs ==
    {ClipReadings(Readings(a)) : a \in ArgsSet \cup ProbeSet}
    \cup {ClipReadings(Readings(RiegoArgs(d))) : d \in DictSet}
    \cup MixedInputs

(***************************************************************************)
(* Initial state: a freshly constructed engine.                            *)
(***************************************************************************)
NoResult == <<0, 0, <<>>>>

\* a file that does not exist; a file is its header line and its records
NoFile == [exists |-> FALSE, header |-> <<>>, rows |-> <<>>]

\* no data directory yet
HistoryInit == [csv |-> NoFile, jsonl |-> NoFile, saved |-> <<>>, historico |-> <<>>]

\* _CACHE = {}: for each key its [ts, data]; no request issued yet
WeatherInit == [cache |-> <<>>, now |-> 0, requests |-> 0, fetched |-> <<>>]

(***************************************************************************)
(* nucleo/weather_api.py.  weather.cache is _CACHE, a function from the    *)
(* key (lat, lon) to [ts, data]; weather.now is the clock _now_ts() reads, *)
(* in seconds; weather.requests counts the requests issued.                *)
(* weather.fetched (not program state) keeps, per key, the time and data   *)
(* of the last fetch that succeeded, until invalidate_cache names the key  *)
(* or is called without a complete key.  An optional value is <<>> (None)  *)
(* or <<v>>; the service's values are hundredths, the readings returned    *)
(* tenths.                                                                 *)
(***************************************************************************)
\* _heuristic_soil_moisture(temp_c, humidity, rain_prob); last_wind_speed is
\* never set, so wind is 0.0
heuristic_soil_moisture(temp_c, humidity, rain_prob) ==
    LET base == 300000 + 35 * humidity + 40 * rain_prob
                - 25 * Max2(0, temp_c - 2000) - 15 * 0
    IN RoundHalfEven(Max2(0, Min2(1000000, base)), 1000)

\* x if x is not None else d
OrElse(x, d) == IF x = <<>> THEN d ELSE x[1]

\* temp or 25.0: None and 0.0 are both false
TempOr(temp) == IF temp = <<>> \/ temp[1] = 0 THEN 2500 ELSE temp[1]

\* lines 89-131: the readings made of a payload
WeatherData(payload) ==
    [temperature |-> IF payload.temperature = <<>> THEN <<>>
                     ELSE <<RoundHalfEven(payload.temperature[1], 10)>>,
     humidity |-> RoundHalfEven(OrElse(payload.humidity, 5000), 10),
     rain_probability |-> RoundHalfEven(OrElse(payload.rain_probability, 0), 10),
     wind_speed |-> RoundHalfEven(OrElse(payload.windspeed, 0), 10),
     soil_moisture_est |-> heuristic_soil_moisture(TempOr(payload.temperature),
                                                   OrElse(payload.humidity, 5000),
                                                   OrElse(payload.rain_probability, 0))]

\* lines 136-146: the readings returned when the request fails
WeatherFallback ==
    [temperature |-> <<250>>, humidity |-> 500, rain_probability |-> 0,
     wind_speed |-> 50, soil_moisture_est |-> heuristic_soil_moisture(2500, 5000, 0)]

\* get_weather(lat, lon, ttl) with key = (lat, lon); response is the
\* service's payload, or <<>> when the request fails
get_weather(w, key, ttl, response) ==
    IF key \in DOMAIN w.cache /\ w.now - w.cache[key].ts < ttl
    THEN [weather |-> w, data |-> w.cache[key].data, cached |-> TRUE, error |-> FALSE]
    ELSE IF response = <<>>
    THEN [weather |-> [w EXCEPT !.requests = @ + 1],
          data |-> WeatherFallback, cached |-> FALSE, error |-> TRUE]
    ELSE [weather |-> [w EXCEPT !.requests = @ + 1,
                                !.cache = (key :> [ts |-> w.now,
                                                   data |-> WeatherData(response[1])]) @@ @,
                                !.fetched = (key :> [t |-> w.now,
                                                     data |-> WeatherData(response[1])]) @@ @],
          data |-> WeatherData(response[1]), cached |-> FALSE, error |-> FALSE]

Without(f, k) == [x \in DOMAIN f \ {k} |-> f[x]]

\* invalidate_cache clearing the cache whatever its arguments
invalidate_cache_all(w, lat, lon) ==
    IF lat = <<>> \/ lon = <<>>
    THEN [w EXCEPT !.cache = <<>>, !.fetched = <<>>]
    ELSE [w EXCEPT !.cache = <<>>,
                   !.fetched = Without(@, <<lat[1], lon[1]>>)]

\* invalidate_cache(lat, lon): everything when lat or lon is None
invalidate_cache(w, lat, lon) ==
    IF lat = <<>> \/ lon = <<>>
    THEN [w EXCEPT !.cache = <<>>, !.fetched = <<>>]
    ELSE [w EXCEPT !.cache = Without(@, <<lat[1], lon[1]>>),
                   !.fetched = Without(@, <<lat[1], lon[1]>>)]

(***************************************************************************)
(* nucleo/base_conocimientos.py.  PLANT_KB is what KnowledgeBase loads     *)
(* from data/plantas.json: per plant its factor_ajuste (thousandths), its  *)
(* optimal soil-humidity range and its optimal temperature range           *)
(* (hundredths).  The file's content is an input of the program.           *)
(***************************************************************************)
PLANT_KB ==
    [Tomate  |-> [factor_ajuste |-> 1000, humedad_suelo_opt |-> <<6000, 8000>>,
                  temperatura_opt |-> <<1800, 3000>>],
     Lechuga |-> [factor_ajuste |-> 1200, humedad_suelo_opt |-> <<6000, 8000>>,
                  temperatura_opt |-> <<1000, 2000>>],
     Cactus  |-> [factor_ajuste |-> 500, humedad_suelo_opt |-> <<1000, 3000>>,
                  temperatura_opt |-> <<2000, 3500>>]]

\* str.title() on the names the callers pass: the first letter of every
\* word upper case, the rest lower case
Title(nombre) ==
    CASE nombre \in {"tomate", "Tomate", "TOMATE"} -> "Tomate"
      [] nombre \in {"lechuga", "Lechuga"} -> "Lechuga"
      [] nombre = "planta_fantasma" -> "Planta_Fantasma"
      [] OTHER -> nombre

\* KnowledgeBase.obtener_info_planta(nombre_planta): <<>> for None
obtener_info_planta(nombre_planta) ==
    IF Title(nombre_planta) \in DOMAIN PLANT_KB
    THEN <<PLANT_KB[Title(nombre_planta)]>> ELSE <<>>

NotFound == <<"No se encontró información de esta planta.">>

\* the lines recomendar_riego writes in its three humidity branches and its
\* three temperature branches: to the message, to reglas_activadas
HumedadMensaje ==
    <<"Humedad baja: aumentar riego.", "Humedad alta: reducir riego.",
      "Humedad dentro del rango óptimo.">>

TemperaturaMensaje ==
    <<"Temperatura baja: riego moderado.", "Temperatura alta: aumentar riego.",
      "Temperatura ideal para el cultivo.">>

HumedadRegla ==
    <<"humedad_actual < humedad_optima → aumentar riego",
      "humedad_actual > humedad_optima → reducir riego",
      "humedad_actual dentro de rango → mantener riego">>

TemperaturaRegla ==
    <<"temperatura_actual < temperatura_optima → riego moderado",
      "temperatura_actual > temperatura_optima → aumentar riego",
      "temperatura_actual dentro de rango → riego normal">>

\* recomendar_riego with the humidity tested by <= and >=
recomendar_riego_strict(nombre_planta, humedad_actual, temperatura_actual) ==
    LET planta == obtener_info_planta(nombre_planta)
        hum == IF planta = <<>> THEN 0
               ELSE IF humedad_actual <= planta[1].humedad_suelo_opt[1] THEN 1
               ELSE IF humedad_actual >= planta[1].humedad_suelo_opt[2] THEN 2
               ELSE 3
        temp == IF planta = <<>> THEN 0
                ELSE IF temperatura_actual < planta[1].temperatura_opt[1] THEN 1
                ELSE IF temperatura_actual > planta[1].temperatura_opt[2] THEN 2
                ELSE 3
    IN IF planta = <<>> THEN NotFound
       ELSE <<HumedadMensaje[hum], TemperaturaMensaje[temp],
              HumedadRegla[hum], TemperaturaRegla[temp]>>

\* KnowledgeBase.recomendar_riego(nombre_planta, humedad_actual,
\* temperatura_actual): the two verdict lines of the message and the two
\* lines of reglas_activadas that follow them (the heading and the plant's
\* consejos line are left out)
recomendar_riego(nombre_planta, humedad_actual, temperatura_actual) ==
    LET planta == obtener_info_planta(nombre_planta)
        hum == IF planta = <<>> THEN 0
               ELSE IF humedad_actual < planta[1].humedad_suelo_opt[1] THEN 1
               ELSE IF humedad_actual > planta[1].humedad_suelo_opt[2] THEN 2
               ELSE 3
        temp == IF planta = <<>> THEN 0
                ELSE IF temperatura_actual < planta[1].temperatura_opt[1] THEN 1
                ELSE IF temperatura_actual > planta[1].temperatura_opt[2] THEN 2
                ELSE 3
    IN IF planta = <<>> THEN NotFound
       ELSE <<HumedadMensaje[hum], TemperaturaMensaje[temp],
              HumedadRegla[hum], TemperaturaRegla[temp]>>

\* float(PLANT_KB.get(planta, {}).get("factor_ajuste", 1.0))
KbFactor(planta) ==
    IF planta \in DOMAIN PLANT_KB THEN PLANT_KB[planta].factor_ajuste ELSE 1000

\* PLANT_KB.get(planta, {}).get("humedad_suelo_opt", [0, 100])
KbHumedadOpt(planta) ==
    IF planta \in DOMAIN PLANT_KB THEN PLANT_KB[planta].humedad_suelo_opt
    ELSE <<0, 10000>>

NoReco == [tiempo_ajustado |-> 0, frecuencia |-> 0]

\* get_recomendacion(planta, condiciones, decision): tiempo_ajustado in
\* millionths of a minute, tiempo (hundredths) times the factor
\* (thousandths) times 0.8, 1 or 1.1 (tenths), held to [0, 60]
get_recomendacion(planta, hs, tiempo, frecuencia) ==
    LET tiempo_aj == tiempo * KbFactor(planta)
        opt == KbHumedadOpt(planta)
        high == IF hs > opt[2] THEN (tiempo_aj * 8) \div 10 ELSE tiempo_aj
        low == IF hs < opt[1] THEN high * 11 ELSE high * 10
    IN [tiempo_ajustado |-> Max2(0, Min2(60000000, low)), frecuencia |-> frecuencia]

\* the entry get_recomendacion appends to historico.json, the last 100 kept
SaveHistorico(h, planta, args, reco) ==
    LET registros == Append(h.historico,
                            [planta |-> planta, humedad_suelo |-> args.soil_humidity,
                             tiempo_min |-> RoundHalfEven(reco.tiempo_ajustado, 10000),
                             frecuencia |-> reco.frecuencia])
    IN [h EXCEPT !.historico =
           IF Len(registros) > 100
           THEN SubSeq(registros, Len(registros) - 99, Len(registros))
           ELSE registros]

LastNone ==
    [op |-> "none", args |-> ArgNormal, raised |-> FALSE, path |-> "none",
     ret |-> NoResult, confianza |-> 0, advisory |-> FALSE,
     repeat |-> FALSE, prev |-> NoResult, planta |-> "", reco |-> NoReco]

Init ==
    /\ cache = <<>>
    /\ sim = [input |-> <<>>, output |-> <<>>]
    /\ centroids = [i \in SimInputs |->
                      [tiempo |-> sim_defuzz("tiempo", i),
                       frecuencia |-> sim_defuzz("frecuencia", i)]]
    /\ last = LastNone
    /\ hist = <<>>
    /\ nops = 0
    /\ history = HistoryInit
    /\ weather = WeatherInit
    /\ frame = <<>>
    /\ born = <<>>

\* the keys of the cache
Keys(c) == {c[i].key : i \in 1 .. Len(c)}

\* the keys present after an operation keep their number; a key that was
\* not present gets the number of the operation
Stamp ==
    born' = [k \in Keys(cache') |-> IF k \in Keys(cache) THEN born[k] ELSE nops + 1]

\* what the bookkeeping variables become after a calculate_irrigation call
\* with result record r
HistAfter(args, r) == IF r.raised THEN hist ELSE (args :> r.ret) @@ hist

Repeat(args) == args \in DOMAIN hist

Prev(args) == IF args \in DOMAIN hist THEN hist[args] ELSE NoResult

(***************************************************************************)
(* Operations of the sequential caller.                                    *)
(***************************************************************************)
CallCalculateIrrigation(args) ==
    /\ nops < MaxOps
    /\ \E r \in {calculate_irrigation(cache, sim, args)} :
          /\ cache' = r.cache
          /\ sim' = r.sim
          /\ last' = [op |-> "calculate_irrigation", args |-> args, raised |-> r.raised,
                      path |-> r.path, ret |-> r.ret, confianza |-> 0,
                      advisory |-> FALSE, repeat |-> Repeat(args), prev |-> Prev(args),
                      planta |-> "", reco |-> NoReco]
          /\ hist' = HistAfter(args, r)
    /\ nops' = nops + 1
    /\ UNCHANGED <<centroids, history, weather, frame>>
    /\ Stamp

CallGetRuleActivations(args) ==
    /\ nops < MaxOps
    /\ last' = [op |-> "get_rule_activations", args |-> args, raised |-> FALSE,
                path |-> "computed", ret |-> <<0, 0, get_rule_activations(Readings(args))>>,
                confianza |-> 0, advisory |-> FALSE, repeat |-> FALSE, prev |-> NoResult,
                planta |-> "", reco |-> NoReco]
    /\ nops' = nops + 1
    /\ UNCHANGED <<cache, sim, centroids, history, weather, hist, frame, born>>

CallCalcularRiego(inputs) ==
    /\ nops < MaxOps
    /\ \E r \in {calcular_riego(cache, sim, inputs)}, args \in {RiegoArgs(inputs)} :
          /\ cache' = r.cache
          /\ sim' = r.sim
          /\ last' = [op |-> "calcular_riego", args |-> args, raised |-> FALSE,
                      path |-> r.path,
                      ret |-> <<r.out.tiempo, r.out.frecuencia, r.out.reglas_activadas>>,
                      confianza |-> r.out.confianza, advisory |-> FALSE,
                      repeat |-> Repeat(args), prev |-> Prev(args),
                      planta |-> "", reco |-> NoReco]
          /\ hist' = IF r.path = "except" THEN hist
                     ELSE (args :> <<r.out.tiempo, r.out.frecuencia,
                                     r.out.reglas_activadas>>) @@ hist
    /\ nops' = nops + 1
    /\ UNCHANGED <<centroids, history, weather, frame>>
    /\ Stamp

\* render_dashboard, "Calcular Riego" pressed: the plant's factor, validate,
\* calculate, score, save the history record, get_recomendacion
DashboardRecord(planta, args, r, confianza) ==
    <<<<"ts", <<"num", 100 * weather.now>>>>,
      <<"temperatura", <<"num", args.temperature>>>>,
      <<"humedad_suelo", <<"num", args.soil_humidity>>>>,
      <<"prob_lluvia", <<"num", args.rain_probability>>>>,
      <<"humedad_ambiental", <<"num", args.air_humidity>>>>,
      <<"viento", <<"num", args.wind_speed>>>>,
      <<"planta", <<"str", planta>>>>,
      <<"tiempo_min", <<"num", r.ret[1]>>>>,
      <<"frecuencia", <<"num", r.ret[2]>>>>,
      <<"confianza", <<"num", RoundHalfEven(confianza, 100)>>>>>>

RenderDashboard(planta, readings) ==
    /\ nops < MaxOps
    /\ \E args \in {[readings EXCEPT !.ajuste_planta = KbFactor(planta)]} :
       IF validate_inputs(Readings(args)) # ""
       THEN /\ last' = [op |-> "render_dashboard", args |-> args, raised |-> FALSE,
                        path |-> "rejected", ret |-> NoResult, confianza |-> 0,
                        advisory |-> FALSE, repeat |-> FALSE, prev |-> NoResult,
                        planta |-> planta, reco |-> NoReco]
            /\ UNCHANGED <<cache, sim, hist, history>>
       ELSE \E r \in {calculate_irrigation(cache, sim, args)} :
            \E confianza \in {peak_weighted_confidence(r.ret[3])} :
            \E reco \in {get_recomendacion(planta, args.soil_humidity, r.ret[1], r.ret[2])} :
               /\ cache' = r.cache
               /\ sim' = r.sim
               /\ last' = [op |-> "render_dashboard", args |-> args, raised |-> FALSE,
                           path |-> r.path, ret |-> r.ret, confianza |-> confianza,
                           advisory |-> LowConfidence(confianza),
                           repeat |-> Repeat(args), prev |-> Prev(args),
                           planta |-> planta, reco |-> reco]
               /\ hist' = HistAfter(args, r)
               /\ history' = SaveHistorico(
                                 save_history(history, DashboardRecord(planta, args, r, confianza)),
                                 planta, args, reco)
    /\ nops' = nops + 1
    /\ UNCHANGED <<centroids, weather, frame>>
    /\ Stamp

Next ==
    \/ \E args \in ArgsSet \cup {ArgNotNumber} : CallCalculateIrrigation(args)
    \/ \E args \in {ArgNormal, ArgNoTiempo} : CallGetRuleActivations(args)
    \/ \E inputs \in DictSet : CallCalcularRiego(inputs)
    \/ \E args \in DashboardSet : RenderDashboard("Tomate", args)

Spec == Init /\ [][Next]_vars

(***************************************************************************)
(* The engine called on the edge-case scenarios.                           *)
(***************************************************************************)
NextProbe ==
    \/ \E args \in ProbeSet : CallCalculateIrrigation(args)
    \/ \E args \in ProbeSet : CallGetRuleActivations(args)

SpecProbe == Init /\ [][NextProbe]_vars

(***************************************************************************)
(* The two confidence scores applied to activation maps of any shape: maps *)
(* of MapLens rules in which the first rules have one degree and the rest  *)
(* another, and the empty map.                                             *)
(***************************************************************************)
Levels == {0, SCALE \div 4, SCALE \div 2, (3 * SCALE) \div 4, SCALE}

MapLens == {1, 3, 33}

ScoreMap(len, n_hi, hi, lo) == [i \in 1 .. len |-> IF i <= n_hi THEN hi ELSE lo]

ScoreMaps ==
    {<<>>} \cup {ScoreMap(len, n_hi, hi, lo) :
                   len \in MapLens, n_hi \in {0, 1, 3}, hi \in Levels, lo \in Levels}

\* self._calculate_confidence(activaciones)
ScoreEngine(act) ==
    /\ nops < MaxOps
    /\ last' = [LastNone EXCEPT !.op = "_calculate_confidence", !.path = "computed",
                                !.ret = <<0, 0, act>>,
                                !.confianza = calculate_confidence(act)]
    /\ nops' = nops + 1
    /\ UNCHANGED <<cache, sim, centroids, history, weather, hist, frame, born>>

\* peak_weighted_confidence(act, w_max=0.7, alpha=0.85)
ScoreDashboard(act) ==
    /\ nops < MaxOps
    /\ last' = [LastNone EXCEPT !.op = "peak_weighted_confidence", !.path = "computed",
                                !.ret = <<0, 0, act>>,
                                !.confianza = peak_weighted_confidence(act)]
    /\ nops' = nops + 1
    /\ UNCHANGED <<cache, sim, centroids, history, weather, hist, frame, born>>

NextScore ==
    \/ \E act \in ScoreMaps : ScoreEngine(act)
    \/ \E act \in ScoreMaps : ScoreDashboard(act)

SpecScore == Init /\ [][NextScore]_vars

(***************************************************************************)
(* validate_inputs called on readings at and next to every bound.          *)
(***************************************************************************)
\* for each reading, in the order of the parameters: the least and the
\* greatest accepted value, and the name the message uses
ValidRanges ==
    <<[var |-> "temperatura", lo |-> 0, hi |-> 4500, name |-> "temperatura"],
      [var |-> "humedad_suelo", lo |-> 0, hi |-> 10000, name |-> "humedad del suelo"],
      [var |-> "lluvia", lo |-> 0, hi |-> 10000, name |-> "probabilidad de lluvia"],
      [var |-> "humedad_aire", lo |-> 0, hi |-> 10000, name |-> "humedad ambiental"],
      [var |-> "viento", lo |-> 0, hi |-> 5000, name |-> "velocidad del viento"]>>

\* readings on and next to the bounds, and the end of the temperature universe
EdgeSet ==
    {Args(t, h, l, a, v, 1000) : t \in {-1, 0, 4500, 4501, 5000},
                                 h \in {-1, 0, 10000, 10001},
                                 l \in {-1, 10000, 10001}, a \in {-1, 0, 10001},
                                 v \in {-1, 0, 5000, 5001}}

\* validate_inputs(...): raises ValueError(message) or returns None
CallValidateInputs(args) ==
    /\ nops < MaxOps
    /\ \E msg \in {validate_inputs(Readings(args))} :
          last' = [LastNone EXCEPT !.op = "validate_inputs", !.args = args,
                                  !.raised = (msg # ""), !.path = msg]
    /\ nops' = nops + 1
    /\ UNCHANGED <<cache, sim, centroids, history, weather, hist, frame, born>>

NextValidate == \E args \in EdgeSet : CallValidateInputs(args)

SpecValidate == Init /\ [][NextValidate]_vars

(***************************************************************************)
(* Fuzzification of every value of every antecedent's universe, one value  *)
(* after the other in steps of 0.01.                                       *)
(***************************************************************************)
AnteTerms(var) ==
    CASE var = "temperatura" -> {"baja", "media", "alta"}
      [] var = "humedad_suelo" -> {"seca", "moderada", "humeda"}
      [] var = "lluvia" -> {"baja", "media", "alta"}
      [] var = "humedad_aire" -> {"baja", "media", "alta"}
      [] var = "viento" -> {"bajo", "medio", "alto"}

\* the degree of x in every set of var
Fuzzify(var, x) ==
    [op |-> "fuzzify", var |-> var, x |-> x,
     degrees |-> [l \in AnteTerms(var) |-> interp_membership(var, l, x)]]

FuzzifyFirst(var) ==
    /\ last.op = "none"
    /\ last' = Fuzzify(var, Universe(var)[1])
    /\ UNCHANGED <<cache, sim, centroids, history, weather, hist, nops, frame, born>>

FuzzifyNext ==
    /\ last.op = "fuzzify"
    /\ last.x < Universe(last.var)[2]
    /\ last' = Fuzzify(last.var, last.x + 1)
    /\ UNCHANGED <<cache, sim, centroids, history, weather, hist, nops, frame, born>>

NextCover == (\E var \in AnteVars : FuzzifyFirst(var)) \/ FuzzifyNext

SpecCover == Init /\ [][NextCover]_vars

(***************************************************************************)
(* The hand-written activations applied to degree records that tell the    *)
(* clauses apart: every degree 1.0 but those of two sets, 0.25 and 0.5.    *)
(***************************************************************************)
\* the keys of deg and the (variable, label) each stands for
DegreeKeys ==
    [t_baja |-> <<"temperatura", "baja">>, t_media |-> <<"temperatura", "media">>,
     t_alta |-> <<"temperatura", "alta">>,
     s_seca |-> <<"humedad_suelo", "seca">>,
     s_moderada |-> <<"humedad_suelo", "moderada">>,
     s_humeda |-> <<"humedad_suelo", "humeda">>,
     l_baja |-> <<"lluvia", "baja">>,
     l_media |-> <<"lluvia", "media">>,
     l_alta |-> <<"lluvia", "alta">>,
     a_baja |-> <<"humedad_aire", "baja">>,
     a_media |-> <<"humedad_aire", "media">>,
     a_alta |-> <<"humedad_aire", "alta">>,
     v_bajo |-> <<"viento", "bajo">>,
     v_medio |-> <<"viento", "medio">>,
     v_alto |-> <<"viento", "alto">>]

MarkedDegrees(p, q) ==
    [k \in DOMAIN DegreeKeys |-> IF k = p THEN SCALE \div 4
                                 ELSE IF k = q THEN SCALE \div 2 ELSE SCALE]

\* lines 305-337 applied to a degree record
ApplyActivations(p, q) ==
    /\ \E deg \in {MarkedDegrees(p, q)} :
          last' = [op |-> "activations", deg |-> deg, ret |-> Activations(deg)]
    /\ UNCHANGED <<cache, sim, centroids, history, weather, hist, nops, frame, born>>

NextRules ==
    \/ \E p \in DOMAIN DegreeKeys, q \in DOMAIN DegreeKeys : ApplyActivations(p, q)
    \/ \E args \in ProbeSet : CallGetRuleActivations(args)

SpecRules == Init /\ [][NextRules]_vars

(***************************************************************************)
(* explain_decision(tiempo, frecuencia, activaciones): the rules it lists  *)
(* and the remarks it appends.                                             *)
(***************************************************************************)
\* the first item of sorted(..., reverse=True) among the rules not in excl:
\* the greatest activation, the earliest inserted among equals
Best(act, excl) ==
    CHOOSE i \in DOMAIN act \ excl :
        \A j \in DOMAIN act \ excl : act[i] > act[j] \/ (act[i] = act[j] /\ i <= j)

\* sorted(activaciones.items(), key=lambda kv: kv[1], reverse=True)[:k]
RECURSIVE SortedTop(_, _, _)
SortedTop(act, k, excl) ==
    IF k = 0 \/ DOMAIN act \ excl = {} THEN <<>>
    ELSE CHOOSE q \in {<<b>> \o SortedTop(act, k - 1, excl \cup {b})
                       : b \in {Best(act, excl)}} : TRUE

\* the rules listed, each with its activation as "{v:.2f}" prints it, and
\* the remarks appended
explain_decision(tiempo, frecuencia, act) ==
    CHOOSE e \in
        {[reglas |-> [i \in DOMAIN top |-> <<top[i], RoundHalfEven(100 * act[top[i]], SCALE)>>],
          no_riego |-> tiempo < 300,
          muy_seco |-> tiempo > 4500,
          alta_frecuencia |-> frecuencia >= 300]
         : top \in {SelectSeq(SortedTop(act, 3, {}), LAMBDA r : 10 * act[r] > SCALE)}}
        : TRUE

\* the activation maps explained: those of the scenarios, and the synthetic
\* maps of 3 and 33 rules
ExplainMaps ==
    {get_rule_activations(Readings(a)) : a \in ArgsSet \cup ProbeSet}
    \cup {m \in ScoreMaps : Len(m) # 1}

CallExplainDecision(tiempo, frecuencia, act) ==
    /\ last' = [op |-> "explain_decision", tiempo |-> tiempo, frecuencia |-> frecuencia,
                act |-> act, ret |-> explain_decision(tiempo, frecuencia, act)]
    /\ UNCHANGED <<cache, sim, centroids, history, weather, hist, nops, frame, born>>

NextExplain ==
    \E tiempo \in {226, 2215, 4979}, frecuencia \in {174, 300}, act \in ExplainMaps :
        CallExplainDecision(tiempo, frecuencia, act)

SpecExplain == Init /\ [][NextExplain]_vars

(***************************************************************************)
(* The history files under save_history, load_history, clear_history and   *)
(* the dashboard.                                                          *)
(***************************************************************************)
HistoryRecord(ts, planta, tiempo) ==
    <<<<"ts", <<"num", ts>>>>,
      <<"temperatura", <<"num", 2500>>>>,
      <<"humedad_suelo", <<"num", 4000>>>>,
      <<"prob_lluvia", <<"num", 2000>>>>,
      <<"humedad_ambiental", <<"num", 6000>>>>,
      <<"viento", <<"num", 1000>>>>,
      <<"planta", <<"str", planta>>>>,
      <<"tiempo_min", <<"num", tiempo>>>>,
      <<"frecuencia", <<"num", 250>>>>>>

RecordSet == {HistoryRecord(100, "Tomate", 2050), HistoryRecord(200, "Lechuga", 1225)}

CallSaveHistory(record) ==
    /\ nops < MaxOps
    /\ history' = save_history(history, record)
    /\ last' = [LastNone EXCEPT !.op = "save_history", !.path = "saved"]
    /\ nops' = nops + 1
    /\ UNCHANGED <<cache, sim, centroids, weather, hist, frame, born>>

CallLoadHistory ==
    /\ nops < MaxOps
    /\ history' = ensure_data_files(history)
    /\ last' = [LastNone EXCEPT !.op = "load_history", !.path = "loaded",
                                !.ret = load_history(history)]
    /\ nops' = nops + 1
    /\ UNCHANGED <<cache, sim, centroids, weather, hist, frame, born>>

CallClearHistory ==
    /\ nops < MaxOps
    /\ history' = clear_history(history)
    /\ last' = [LastNone EXCEPT !.op = "clear_history", !.path = "cleared"]
    /\ nops' = nops + 1
    /\ UNCHANGED <<cache, sim, centroids, weather, hist, frame, born>>

NextHistory ==
    \/ \E record \in RecordSet : CallSaveHistory(record)
    \/ CallLoadHistory
    \/ CallClearHistory
    \/ \E planta \in {"Tomate", "Lechuga", "Cactus", "Orquidea"},
          readings \in {ArgNormal, ArgDrySoil} : RenderDashboard(planta, readings)

SpecHistory == Init /\ [][NextHistory]_vars

(***************************************************************************)
(* The weather client under get_weather, invalidate_cache and the clock.   *)
(***************************************************************************)
Payload(t, h, r) ==
    [temperature |-> t, windspeed |-> <<1200>>, humidity |-> h, rain_probability |-> r]

Responses ==
    {<<>>,
     <<Payload(<<2200>>, <<6300>>, <<2000>>)>>,
     <<Payload(<<0>>, <<6300>>, <<2000>>)>>,
     <<Payload(<<3000>>, <<9500>>, <<10000>>)>>,
     <<Payload(<<>>, <<>>, <<>>)>>}

WeatherKeys == {<<-1205, -7705>>, <<-810, -7900>>}

DefaultTtl == 300

TtlSet == {DefaultTtl, 100}

CallGetWeather(key, ttl, response) ==
    /\ nops < MaxOps
    /\ \E r \in {get_weather(weather, key, ttl, response)} :
          /\ weather' = r.weather
          /\ last' = [LastNone EXCEPT !.op = "get_weather",
                                      !.args = [key |-> key, ttl |-> ttl, response |-> response],
                                      !.path = IF r.cached THEN "hit"
                                               ELSE IF r.error THEN "error" ELSE "fetched",
                                      !.ret = r.data]
    /\ nops' = nops + 1
    /\ UNCHANGED <<cache, sim, centroids, history, hist, frame, born>>

CallInvalidateCache(lat, lon) ==
    /\ nops < MaxOps
    /\ weather' = invalidate_cache(weather, lat, lon)
    /\ last' = [LastNone EXCEPT !.op = "invalidate_cache",
                                !.args = [lat |-> lat, lon |-> lon],
                                !.path = "invalidated"]
    /\ nops' = nops + 1
    /\ UNCHANGED <<cache, sim, centroids, history, hist, frame, born>>

\* time passes
Tick(d) ==
    /\ nops < MaxOps
    /\ weather' = [weather EXCEPT !.now = @ + d]
    /\ last' = [LastNone EXCEPT !.op = "tick"]
    /\ nops' = nops + 1
    /\ UNCHANGED <<cache, sim, centroids, history, hist, frame, born>>

NextWeather ==
    \/ \E key \in WeatherKeys, ttl \in TtlSet, response \in Responses :
          CallGetWeather(key, ttl, response)
    \/ \E lat \in {<<>>, <<-1205>>, <<-810>>}, lon \in {<<>>, <<-7705>>, <<-7900>>} :
          CallInvalidateCache(lat, lon)
    \/ \E d \in {100, 200} : Tick(d)

SpecWeather == Init /\ [][NextWeather]_vars

(***************************************************************************)
(* KnowledgeBase.recomendar_riego on names in and out of the knowledge     *)
(* base and on values at, inside and outside the optimal ranges.           *)
(***************************************************************************)
NombreSet == {"tomate", "Tomate", "lechuga", "planta_fantasma", "Orquidea"}

HumedadSet == {4000, 5999, 6000, 7000, 8000, 8001}

TemperaturaSet == {999, 1000, 1799, 1800, 2400, 3000, 3001}

CallRecomendarRiego(nombre_planta, humedad_actual, temperatura_actual) ==
    /\ nops < MaxOps
    /\ last' = [LastNone EXCEPT
                   !.op = "recomendar_riego",
                   !.args = [nombre_planta |-> nombre_planta,
                             humedad_actual |-> humedad_actual,
                             temperatura_actual |-> temperatura_actual],
                   !.path = "returned",
                   !.ret = recomendar_riego(nombre_planta, humedad_actual,
                                            temperatura_actual)]
    /\ nops' = nops + 1
    /\ UNCHANGED <<cache, sim, centroids, history, weather, hist, frame, born>>

NextKnowledge ==
    \E nombre_planta \in NombreSet, humedad_actual \in HumedadSet,
       temperatura_actual \in TemperaturaSet :
          CallRecomendarRiego(nombre_planta, humedad_actual, temperatura_actual)

SpecKnowledge == Init /\ [][NextKnowledge]_vars

(***************************************************************************)
(* An engine that has served earlier calls: WarmArg(1), WarmArg(2), ...    *)
(* with pairwise different cache keys, in this order.                      *)
(***************************************************************************)
WarmArg(i) == Args(4000, 1000, 1000, 1000, 1000, 2000 + 10 * i)

\* the cache and the simulation of engine e after one more call
AfterCall(e, args) ==
    CHOOSE x \in {[cache |-> r.cache, sim |-> r.sim]
                  : r \in {calculate_irrigation(e.cache, e.sim, args)}} : TRUE

\* engine e after the calls WarmArg(lo), ..., WarmArg(hi), in this order
RECURSIVE AfterCalls(_, _, _)
AfterCalls(e, lo, hi) ==
    IF lo > hi THEN e
    ELSE IF lo = hi THEN AfterCall(e, WarmArg(lo))
    ELSE CHOOSE x \in UNION {{AfterCalls(m, mid + 1, hi) : m \in {AfterCalls(e, lo, mid)}}
                             : mid \in {(lo + hi) \div 2}} : TRUE

\* the cache and the simulation after the first n of these calls
WarmEngine(n) ==
    AfterCalls([cache |-> <<>>, sim |-> [input |-> <<>>, output |-> <<>>]], 1, n)

\* the n calls were operations 1-n, ..., 0
WarmBorn(n) == [k \in {cache_key(WarmArg(i)) : i \in 1 .. n} |->
                  (CHOOSE i \in 1 .. n : cache_key(WarmArg(i)) = k) - n]

\* one call short of a full cache
InitWarm ==
    /\ centroids = [i \in SimInputs |->
                      [tiempo |-> sim_defuzz("tiempo", i),
                       frecuencia |-> sim_defuzz("frecuencia", i)]]
    /\ \E e \in {WarmEngine(CACHE_MAX - 1)} : cache = e.cache /\ sim = e.sim
    /\ last = LastNone
    /\ hist = <<>>
    /\ nops = 0
    /\ history = HistoryInit
    /\ weather = WeatherInit
    /\ frame = <<>>
    /\ born = WarmBorn(CACHE_MAX - 1)

SpecWarm == InitWarm /\ [][Next]_vars

(***************************************************************************)
(* Properties of the sequential caller.  Durations and frequencies are in  *)
(* hundredths, confidences in 1/10000.                                     *)
(***************************************************************************)
IsCall == last.op = "calculate_irrigation"

\* no rule assigning the consequent fires at the readings the simulation
\* is given
NoRuleFires(var, args) ==
    \A i \in RuleIds :
        (\E l \in ConsTerms(var) : <<var, l>> \in create_rules[i].cons)
        => sim_firing(create_rules[i], ClipReadings(Readings(args))) = 0

ZeroArea(args) == NoRuleFires("tiempo", args) \/ NoRuleFires("frecuencia", args)

\* C1: for numeric in-range readings and any adjustment, after any earlier
\* calls, calculate_irrigation returns without raising a duration in [0,60]
\* and a frequency in [0.5,4], whichever path it takes.
C1_OutputInRange ==
    (IsCall /\ last.args.numeric)
    => /\ ~last.raised
       /\ 0 <= last.ret[1] /\ last.ret[1] <= 6000
       /\ 50 <= last.ret[2] /\ last.ret[2] <= 400

\* a computed call whose raw duration times the adjustment exceeds 60
C1_Witness ==
    /\ IsCall /\ last.path = "computed"
    /\ sim.output["tiempo"] * ClampAjuste(last.args.ajuste_planta) > 600000000
    /\ last.ret[1] = 6000

C3_ActivationsAgree ==
    (IsCall /\ ~last.raised) => last.ret[3] = get_rule_activations(Readings(last.args))

\* a call that returns a full map differing from get_rule_activations
C3_Witness ==
    /\ IsCall /\ DOMAIN last.ret[3] = RuleIds
    /\ last.ret[3] # get_rule_activations(Readings(last.args))

\* C4 as stated: a call with the arguments of an earlier call returns the
\* triple the earlier call returned.
C4_RepeatedCallAgrees ==
    (IsCall /\ ~last.raised /\ last.repeat) => last.ret = last.prev

\* C5 as stated: calculate_irrigation and calcular_riego never raise and
\* return duration in [0,60], frequency in [0.5,4], confidence in [0,1].
C5_NeverRaisesWellFormed ==
    last.op \in {"calculate_irrigation", "calcular_riego"}
    => /\ ~last.raised
       /\ 0 <= last.ret[1] /\ last.ret[1] <= 6000
       /\ 50 <= last.ret[2] /\ last.ret[2] <= 400
       /\ 0 <= last.confianza /\ last.confianza <= 10000

\* calcular_riego took its except branch
C5_Witness ==
    last.op = "calcular_riego" /\ last.path = "except" /\ last.ret[2] = 0

\* C6 as stated: for readings validate_inputs accepts, a rule assigning each
\* consequent fires, the result is not the fallback and the map is not empty.
C6_NoDegenerateCase ==
    (IsCall /\ last.args.numeric /\ validate_inputs(Readings(last.args)) = "")
    => /\ ~ZeroArea(last.args)
       /\ last.ret # <<1500, 200, <<>>>>
       /\ last.ret[3] # <<>>

\* C7: a call that runs the simulation on readings at which no rule
\* assigning one of the consequents fires does not raise and returns
\* exactly (15, 2, empty map), whatever the adjustment.
C7_DegenerateFallback ==
    (IsCall /\ last.args.numeric /\ ZeroArea(last.args) /\ last.path # "hit")
    => ~last.raised /\ last.ret = <<1500, 200, <<>>>>

C7_Witness ==
    /\ IsCall /\ ZeroArea(last.args) /\ last.args.ajuste_planta = 1500
    /\ last.path # "hit"
    /\ last.ret = <<1500, 200, <<>>>>

\* C8 as stated: whenever the fallback is returned, every confidence
\* reported for it is below 0.45 and the dashboard shows its advisory.
C8_FallbackLowConfidence ==
    (last.op \in {"calcular_riego", "render_dashboard"} /\ last.path = "fallback")
    => /\ last.confianza < 4500
       /\ (last.op = "render_dashboard" => last.advisory)

\* the dashboard scores a fallback 0.75 and shows no advisory
C8_Witness ==
    /\ last.op = "render_dashboard" /\ last.ret = <<1500, 200, <<>>>>
    /\ last.confianza = 7500 /\ ~last.advisory

\* C9: a call that computes returns, with a the adjustment clamped to
\* [0.3, 1.5], duration round(clamp(raw * a, 0, 60), 2) and frequency
\* round(clamp(raw * (0.85 + 0.3 a), 0.5, 4), 2) of the simulation's raw
\* outputs; and it agrees in both with every earlier call on the same
\* readings whose adjustment clamps to the same a.
C9_AdjustmentFormula ==
    (IsCall /\ last.path = "computed")
    => LET a == IF last.args.ajuste_planta < 300 THEN 300
                ELSE IF last.args.ajuste_planta > 1500 THEN 1500
                ELSE last.args.ajuste_planta
           d == sim.output["tiempo"] * a
           f == sim.output["frecuencia"] * (8500 + 3 * a)
       IN /\ last.ret[1] = RoundHalfEven(IF d < 0 THEN 0
                                         ELSE IF d > 600000000 THEN 600000000 ELSE d,
                                         100000)
          /\ last.ret[2] = RoundHalfEven(IF f < 50000000 THEN 50000000
                                         ELSE IF f > 400000000 THEN 400000000 ELSE f,
                                         1000000)
          /\ \A b \in DOMAIN hist :
                (Readings(b) = Readings(last.args)
                   /\ b.ajuste_planta \in {300, 1500}
                   /\ (b.ajuste_planta = 300 <=> last.args.ajuste_planta <= 300)
                   /\ (b.ajuste_planta = 1500 <=> last.args.ajuste_planta >= 1500))
                => hist[b][1] = last.ret[1] /\ hist[b][2] = last.ret[2]

\* an adjustment above 1.5 computed after the same readings with 1.5
C9_Witness ==
    /\ IsCall /\ last.path = "computed" /\ last.args = ArgDryHigh
    /\ ArgDryMax \in DOMAIN hist
    /\ hist[ArgDryMax][2] = last.ret[2] /\ last.ret[2] < 400

(***************************************************************************)
(* Properties of the cache of a single caller, on an engine that has       *)
(* served earlier calls.                                                   *)
(***************************************************************************)
\* C12: after any sequence of calls by a single caller the cache holds at
\* most 100 entries.
C12_CacheAtMost100 == Len(cache) <= 100 /\ Cardinality(Keys(cache)) = Len(cache)

\* a result was stored in a full cache
C12_Witness ==
    /\ Len(cache) = 100 /\ last.path = "computed"
    /\ cache[100].key = cache_key(last.args)
    /\ cache_key(WarmArg(1)) \notin Keys(cache)

\* C13: a miss that stores into a full cache evicts exactly one entry, the
\* one inserted earliest among those present; a cache hit changes neither
\* the entries nor their order of insertion.
C13_EvictsOldestInserted ==
    [][/\ (Len(cache) = 100 /\ Keys(cache') # Keys(cache))
          => \E k \in Keys(cache) :
                /\ Keys(cache) \ Keys(cache') = {k}
                /\ \A j \in Keys(cache) : born[k] <= born[j]
       /\ (nops' # nops /\ last'.path = "hit")
          => cache' = cache /\ born' = born]_vars

\* two evictions: the two earliest calls' entries are gone, the third
\* call's entry is the oldest present
C13_Witness ==
    /\ Len(cache) = 100
    /\ cache_key(WarmArg(1)) \notin Keys(cache)
    /\ cache_key(WarmArg(2)) \notin Keys(cache)
    /\ \A j \in Keys(cache) : born[cache_key(WarmArg(3))] <= born[j]

\* every reading lies in its universe
InDomain(args) ==
    \A v \in AnteVars : /\ Readings(args)[v] >= Universe(v)[1]
                        /\ Readings(args)[v] <= Universe(v)[2]

\* C14: every activation value that get_rule_activations or
\* calculate_irrigation returns for readings inside the universes lies in
\* [0, 1]
C14_ActivationsInUnitInterval ==
    (/\ last.op \in {"calculate_irrigation", "get_rule_activations"}
     /\ ~last.raised
     /\ InDomain(last.args))
    => \A i \in DOMAIN last.ret[3] : last.ret[3][i] >= 0 /\ last.ret[3][i] <= SCALE

\* a call inside the universes returned a rule fully active, a rule partly
\* active and a rule inactive
C14_Witness ==
    /\ last.op = "calculate_irrigation"
    /\ InDomain(last.args)
    /\ \E i \in DOMAIN last.ret[3] : last.ret[3][i] = SCALE
    /\ \E i \in DOMAIN last.ret[3] : last.ret[3][i] > 0 /\ last.ret[3][i] < SCALE
    /\ \E i \in DOMAIN last.ret[3] : last.ret[3][i] = 0

\* C18: for temperature 35, soil humidity 10, rain probability 5, air
\* humidity 30 and wind 10 with the default adjustment, the duration is at
\* least 35 minutes and rule R3 is active above 0.8
C18_DrySoilLongIrrigation ==
    (last.op = "calculate_irrigation" /\ last.args = ArgDrySoil)
    => /\ ~last.raised
       /\ last.ret[1] >= 3500
       /\ Len(last.ret[3]) = 33
       /\ 10 * last.ret[3][3] > 8 * SCALE

\* the dry-soil scenario was computed by the simulation: 49.79 minutes
C18_Witness ==
    /\ last.op = "calculate_irrigation"
    /\ last.args = ArgDrySoil
    /\ last.path = "computed"
    /\ last.ret[1] = 4979
    /\ last.ret[3][3] = SCALE

\* C19: for temperature 22, soil humidity 60, air humidity 80 and wind 8,
\* the duration at rain probability 85 is strictly less than at rain
\* probability 10
C19_RainShortensIrrigation ==
    (ArgRainLow \in DOMAIN hist /\ ArgRainHigh \in DOMAIN hist)
    => hist[ArgRainHigh][1] < hist[ArgRainLow][1]

\* both rain scenarios were computed: 8.24 minutes against 11.5 minutes
C19_Witness ==
    /\ ArgRainLow \in DOMAIN hist
    /\ ArgRainHigh \in DOMAIN hist
    /\ hist[ArgRainHigh][1] = 824
    /\ hist[ArgRainLow][1] = 1150
    /\ last.args = ArgRainHigh
    /\ last.path = "computed"

\* a and b differ in exactly one reading, by less than 0.2
NearBy(a, b) ==
    /\ a.ajuste_planta = b.ajuste_planta
    /\ \E v \in AnteVars :
          /\ Readings(a)[v] # Readings(b)[v]
          /\ Readings(a)[v] - Readings(b)[v] < 20
          /\ Readings(b)[v] - Readings(a)[v] < 20
          /\ \A w \in AnteVars \ {v} : Readings(a)[w] = Readings(b)[w]

\* |d1 - d2| / max(d1, d2, 1) < 0.5, durations in hundredths
SmallChange(d1, d2) ==
    /\ 2 * (d1 - d2) < Max2(Max2(d1, d2), 100)
    /\ 2 * (d2 - d1) < Max2(Max2(d1, d2), 100)

\* C17 as stated: changing a single reading by less than 0.2, all readings
\* in range, never changes the duration by more than 50 % relative
C17_SmallChangeSmallEffect ==
    \A a \in DOMAIN hist, b \in DOMAIN hist :
        (a.numeric /\ b.numeric /\ InDomain(a) /\ InDomain(b) /\ NearBy(a, b))
        => SmallChange(hist[a][1], hist[b][1])

\* temperature 25.0 and 25.1 at soil humidity 20, rain 60, air humidity 100,
\* wind 10, both computed by the simulation: 2.26 against 10.47 minutes
C17_Witness ==
    /\ ArgStepLow \in DOMAIN hist
    /\ ArgStepHigh \in DOMAIN hist
    /\ NearBy(ArgStepLow, ArgStepHigh)
    /\ hist[ArgStepLow][3] # <<>>
    /\ hist[ArgStepHigh][3] # <<>>
    /\ hist[ArgStepLow][1] = 226
    /\ hist[ArgStepHigh][1] = 1047

\* the arguments with every reading moved to the nearest bound of its universe
Nearest(args) ==
    [args EXCEPT !.temperature = sim_clip("temperatura", @),
                 !.soil_humidity = sim_clip("humedad_suelo", @),
                 !.rain_probability = sim_clip("lluvia", @),
                 !.air_humidity = sim_clip("humedad_aire", @),
                 !.wind_speed = sim_clip("viento", @)]

\* C20 as stated: a call with a reading outside its universe is not
\* rejected, and its duration, frequency and activations equal those of the
\* call with the reading at the nearest bound of the universe
C20_OutOfRangeAsNearestBound ==
    /\ (last.op = "calculate_irrigation" /\ last.args.numeric /\ ~InDomain(last.args))
       => ~last.raised
    /\ \A a \in DOMAIN hist :
          (a.numeric /\ ~InDomain(a) /\ Nearest(a) \in DOMAIN hist)
          => hist[a] = hist[Nearest(a)]

\* temperature 55 and temperature 50 were both computed: the same duration
\* and frequency, different activations
C20_Witness ==
    /\ ArgTempOver \in DOMAIN hist
    /\ Nearest(ArgTempOver) = ArgTempMax
    /\ ArgTempMax \in DOMAIN hist
    /\ hist[ArgTempOver][1] = hist[ArgTempMax][1]
    /\ hist[ArgTempOver][2] = hist[ArgTempMax][2]
    /\ hist[ArgTempOver][3] # <<>>
    /\ hist[ArgTempOver][3][31] = 0
    /\ hist[ArgTempMax][3][31] = SCALE \div 2

\* C16 as stated: there is one confidence policy: for the same activation
\* map the confidence calcular_riego returns equals the confidence the
\* dashboard displays
C16_OneConfidencePolicy ==
    /\ (last.op = "render_dashboard" /\ last.path # "rejected")
       => last.confianza = calculate_confidence(last.ret[3])
    /\ (last.op = "calcular_riego" /\ last.path # "except")
       => last.confianza = peak_weighted_confidence(last.ret[3])

\* the dashboard scored a computed, non-empty activation map differently
\* from the engine's policy
C16_Witness ==
    /\ last.op = "render_dashboard"
    /\ last.args = ArgNormal
    /\ last.path = "computed"
    /\ last.ret[3] # <<>>
    /\ last.confianza = peak_weighted_confidence(last.ret[3])
    /\ last.confianza # calculate_confidence(last.ret[3])

\* C15: for every activation map with values in [0, 1], the empty map
\* included, the engine's confidence and the dashboard's peak-weighted
\* confidence both lie in [0, 1]
C15_ConfidenceInUnitInterval ==
    (/\ last.op \in {"_calculate_confidence", "peak_weighted_confidence"}
     /\ \A i \in DOMAIN last.ret[3] : last.ret[3][i] >= 0 /\ last.ret[3][i] <= SCALE)
    => last.confianza >= 0 /\ last.confianza <= 10000

\* the dashboard scored a map of 33 fully active rules, where the bonus of
\* 15 % is cut back to 1.0
C15_Witness ==
    /\ last.op = "peak_weighted_confidence"
    /\ last.ret[3] = ScoreMap(33, 3, SCALE, SCALE)
    /\ last.confianza = 10000

\* the positions, in parameter order, of the readings outside their range
OutOfRange(args) ==
    {i \in 1 .. 5 : \/ Readings(args)[ValidRanges[i].var] < ValidRanges[i].lo
                    \/ Readings(args)[ValidRanges[i].var] > ValidRanges[i].hi}

\* C21: validate_inputs raises ValueError exactly when some reading is
\* outside its range (bounds inclusive), the message names the first such
\* reading in parameter order, and a call with readings in range returns
\* without changing anything
C21_ValidateInputs ==
    [][(last'.op = "validate_inputs" /\ nops' # nops)
       => /\ last'.raised <=> (OutOfRange(last'.args) # {})
          /\ last'.raised =>
                \E i \in OutOfRange(last'.args) :
                   /\ \A j \in OutOfRange(last'.args) : i <= j
                   /\ last'.path = ValidRanges[i].name
          /\ UNCHANGED <<cache, sim, hist, history, weather>>]_vars

\* temperature 45 with soil humidity and wind out of range: the message
\* names the soil humidity
C21_Witness ==
    /\ last.op = "validate_inputs"
    /\ last.args.temperature = 4500
    /\ OutOfRange(last.args) = {2, 5}
    /\ last.raised
    /\ last.path = "humedad del suelo"

\* a call with every reading on a bound returned
C21_WitnessAccepted ==
    /\ last.op = "validate_inputs"
    /\ last.args = Args(4500, 0, 10000, 0, 5000, 1000)
    /\ ~last.raised

\* C22: for each antecedent variable and every value of its universe, at
\* least one of the variable's fuzzy sets has a degree above 0
C22_SetsCoverUniverse ==
    last.op = "fuzzify" => \E l \in DOMAIN last.degrees : last.degrees[l] > 0

\* the wind at 30.0, where 'medio' ends: only 'alto' is above 0
C22_Witness ==
    /\ last.op = "fuzzify"
    /\ last.var = "viento"
    /\ last.x = 3000
    /\ last.degrees["medio"] = 0
    /\ last.degrees["bajo"] = 0
    /\ last.degrees["alto"] > 0

\* the keys of deg that stand for the antecedent clauses of the i-th rule
ClauseKeys(i) == {k \in DOMAIN DegreeKeys : DegreeKeys[k] \in create_rules[i].ante}

\* C23: for each rule Ri the activation get_rule_activations reports is the
\* minimum of the degrees of exactly the (variable, label) pairs of the
\* antecedent of the i-th rule of _create_rules
C23_ActivationsFollowRules ==
    /\ last.op = "activations"
       => /\ DOMAIN last.ret = RuleIds
          /\ \A i \in RuleIds : last.ret[i] = mn({last.deg[k] : k \in ClauseKeys(i)})
    /\ last.op = "get_rule_activations"
       => \A i \in RuleIds :
             last.ret[3][i] = mn({Degrees(Readings(last.args))[k] : k \in ClauseKeys(i)})
    /\ last.op = "get_rule_activations"
       => \A k \in DOMAIN DegreeKeys :
             Degrees(Readings(last.args))[k]
             = interp_membership(DegreeKeys[k][1], DegreeKeys[k][2],
                                 Readings(last.args)[DegreeKeys[k][1]])

\* degrees that single out temperature 'alta' and air humidity 'baja': of
\* the rules R18 and R27, R18 alone has both clauses
C23_Witness ==
    /\ last.op = "activations"
    /\ last.deg = MarkedDegrees("t_alta", "a_baja")
    /\ last.ret[18] = SCALE \div 4
    /\ last.ret[27] = SCALE \div 2
    /\ last.ret[1] = SCALE

\* the rules in descending order of activation: no rule left out is more
\* active than a rule listed, and the list does not ascend
IsTopOf(ids, act) ==
    /\ \A i \in DOMAIN ids : ids[i] \in DOMAIN act
    /\ \A i \in DOMAIN ids, j \in DOMAIN ids :
          i < j => ids[i] # ids[j] /\ act[ids[i]] >= act[ids[j]]
    /\ \A i \in DOMAIN ids : \A r \in DOMAIN act \ {ids[k] : k \in DOMAIN ids} :
          act[ids[i]] >= act[r]

\* C24 as stated: whenever the activation map has at least three entries,
\* explain_decision lists the three rules with the highest activations, in
\* descending order of activation
C24_ListsTopThree ==
    (last.op = "explain_decision" /\ Len(last.act) >= 3)
    => /\ Len(last.ret.reglas) = 3
       /\ IsTopOf([i \in 1 .. 3 |-> last.ret.reglas[i][1]], last.act)

\* a map of 33 rules of which two are active, R23 (0.67) and R8 (0.5): two
\* rules are listed
C24_Witness ==
    /\ last.op = "explain_decision"
    /\ last.act = get_rule_activations(Readings(ArgNormal))
    /\ Len(last.act) = 33
    /\ last.ret.reglas = <<<<23, 67>>, <<8, 50>>>>

\* C25: load_history returns exactly the records saved since the last
\* clear_history, in save order, every field holding the value saved, the
\* dashboard's records included, and history.jsonl holds as many records
\* as history.csv has data lines
FieldsKept(record, row) ==
    \A j \in DOMAIN record :
        /\ record[j][1] \in DOMAIN row
        /\ row[record[j][1]] = record[j][2]

C25_LoadReturnsSaved ==
    last.op = "load_history" =>
        /\ Len(last.ret) = Len(history.saved)
        /\ \A i \in DOMAIN history.saved :
              i \in DOMAIN last.ret /\ FieldsKept(history.saved[i], last.ret[i])
        /\ Len(history.jsonl.rows) = Len(history.csv.rows)

C25_Witness ==
    /\ last.op = "load_history"
    /\ \E i \in DOMAIN history.saved : Len(history.saved[i]) = Len(HistoryColumns)
    /\ \E i \in DOMAIN history.saved : history.saved[i][7][2] = <<"str", "Tomate">>
                                        /\ Len(history.saved[i]) > Len(HistoryColumns)

\* the records of callers that pass the nine columns load back as saved
C25_PlainRecordsLoadBack ==
    (/\ last.op = "load_history"
     /\ \A i \in DOMAIN history.saved : Len(history.saved[i]) = Len(HistoryColumns))
    => /\ Len(last.ret) = Len(history.saved)
       /\ \A i \in DOMAIN history.saved : FieldsKept(history.saved[i], last.ret[i])
       /\ Len(history.jsonl.rows) = Len(history.csv.rows)

\* C28: the result cache is transparent: whatever calls came before,
\* calculate_irrigation returns the triple an engine without any earlier
\* call returns for the same arguments
FreshEngine(args) ==
    calculate_irrigation(<<>>, [input |-> <<>>, output |-> <<>>], args)

C28_CacheTransparent ==
    (IsCall /\ ~last.raised) => last.ret = FreshEngine(last.args).ret

\* a call served from an entry that a different argument tuple created
C28_Witness ==
    /\ IsCall /\ last.path = "hit" /\ ~last.repeat
    /\ last.ret # FreshEngine(last.args).ret

\* C26: after a get_weather(lat, lon) that fetched at time t, a call for the
\* same key before t + ttl (ttl being that call's, 300 unless given) returns
\* the same readings as cached without a request, unless invalidate_cache
\* named the key or was called without a complete key in between; and
\* invalidate_cache(lat, lon) removes that key's entry and no other
C26_CacheServesUntilTtl ==
    [][/\ (/\ nops' # nops /\ last'.op = "get_weather"
           /\ last'.args.key \in DOMAIN weather.fetched
           /\ weather.now < weather.fetched[last'.args.key].t + last'.args.ttl)
          => /\ last'.path = "hit"
             /\ last'.ret = weather.fetched[last'.args.key].data
             /\ weather'.requests = weather.requests
       /\ (/\ nops' # nops /\ last'.op = "invalidate_cache"
           /\ last'.args.lat # <<>> /\ last'.args.lon # <<>>)
          => /\ DOMAIN weather'.cache
                  = DOMAIN weather.cache \ {<<last'.args.lat[1], last'.args.lon[1]>>}
             /\ \A k \in DOMAIN weather'.cache : weather'.cache[k] = weather.cache[k]
      ]_vars

\* a call served from the cache after time has passed since the fetch
C26_Witness ==
    /\ last.op = "get_weather" /\ last.path = "hit"
    /\ last.args.key \in DOMAIN weather.fetched
    /\ weather.now > weather.fetched[last.args.key].t
    /\ weather.requests = 1

\* invalidate_cache(lat, lon) took one entry and left another
C26_WitnessOtherKept ==
    /\ last.op = "invalidate_cache" /\ last.args.lat # <<>> /\ last.args.lon # <<>>
    /\ DOMAIN weather.cache # {}
    /\ weather.requests = 2

\* C30: when the service supplies a current temperature, 0 degrees
\* included, the soil-moisture estimate get_weather returns is the
\* heuristic's value for that temperature, and lies in [0, 100]
C30_EstimateFromReportedTemperature ==
    (/\ last.op = "get_weather" /\ last.path = "fetched"
     /\ last.args.response[1].temperature # <<>>)
    => /\ last.ret.soil_moisture_est
            = heuristic_soil_moisture(last.args.response[1].temperature[1],
                                      OrElse(last.args.response[1].humidity, 5000),
                                      OrElse(last.args.response[1].rain_probability, 0))
       /\ 0 <= last.ret.soil_moisture_est /\ last.ret.soil_moisture_est <= 1000

\* a fetch for which the service reported 0 degrees
C30_Witness ==
    /\ last.op = "get_weather" /\ last.path = "fetched"
    /\ last.args.response[1].temperature = <<0>>
    /\ last.ret.temperature = <<0>>

\* the estimate get_weather returns lies in [0, 100] on every path
C30_EstimateInRange ==
    last.op = "get_weather"
    => (0 <= last.ret.soil_moisture_est /\ last.ret.soil_moisture_est <= 1000)

\* C27: recomendar_riego returns the not-found message for a plant that is
\* not in the knowledge base; for a known plant it gives exactly one humidity
\* verdict and exactly one temperature verdict, a value on either bound of
\* the optimal range counts as within the range, and humidity below the
\* optimal minimum gives the advice to increase irrigation
HumedadVerdicts ==
    {"Humedad baja: aumentar riego.", "Humedad alta: reducir riego.",
     "Humedad dentro del rango óptimo."}

TemperaturaVerdicts ==
    {"Temperatura baja: riego moderado.", "Temperatura alta: aumentar riego.",
     "Temperatura ideal para el cultivo."}

Lines(mensaje) == {mensaje[i] : i \in DOMAIN mensaje}

\* the plant of the knowledge base a name denotes, letter case apart
PlantOf(nombre) ==
    CASE nombre \in {"tomate", "Tomate"} -> <<"Tomate">>
      [] nombre = "lechuga" -> <<"Lechuga">>
      [] OTHER -> <<>>

C27_RecomendarRiego ==
    last.op = "recomendar_riego" =>
        IF PlantOf(last.args.nombre_planta) = <<>>
        THEN last.ret = NotFound
        ELSE LET opt == PLANT_KB[PlantOf(last.args.nombre_planta)[1]]
                 h == last.args.humedad_actual
                 t == last.args.temperatura_actual
             IN /\ Cardinality({i \in DOMAIN last.ret : last.ret[i] \in HumedadVerdicts}) = 1
                /\ Cardinality({i \in DOMAIN last.ret : last.ret[i] \in TemperaturaVerdicts}) = 1
                /\ h \in {opt.humedad_suelo_opt[1], opt.humedad_suelo_opt[2]}
                      => "Humedad dentro del rango óptimo." \in Lines(last.ret)
                /\ t \in {opt.temperatura_opt[1], opt.temperatura_opt[2]}
                      => "Temperatura ideal para el cultivo." \in Lines(last.ret)
                /\ h < opt.humedad_suelo_opt[1]
                      => "Humedad baja: aumentar riego." \in Lines(last.ret)

\* a known plant, asked by its lower-case name, with humidity on the lower
\* bound and temperature on the upper bound of its ranges
C27_Witness ==
    /\ last.op = "recomendar_riego"
    /\ last.args = [nombre_planta |-> "tomate", humedad_actual |-> 6000,
                    temperatura_actual |-> 3000]
    /\ SubSeq(last.ret, 1, 2) = <<"Humedad dentro del rango óptimo.",
                                  "Temperatura ideal para el cultivo.">>

\* a plant that is not in the knowledge base
C27_WitnessNotFound ==
    /\ last.op = "recomendar_riego" /\ last.args.nombre_planta = "planta_fantasma"
    /\ last.ret = NotFound

\* C29: on the dashboard the plant's factor scales the duration once: the
\* tiempo_ajustado of get_recomendacion is the duration calculate_irrigation
\* returned (already scaled by the factor held to [0.3, 1.5]) times 0.8, 1 or
\* 1.1 for the soil humidity, held to [0, 60], without the factor again
C29_FactorAppliedOnce ==
    (last.op = "render_dashboard" /\ last.path # "rejected")
    => last.reco.tiempo_ajustado
          \in {Min2(60000000, last.ret[1] * 1000 * m) : m \in {8, 10, 11}}

\* the dashboard computed for a plant whose factor is not 1
C29_Witness ==
    /\ last.op = "render_dashboard" /\ last.path = "computed"
    /\ last.planta = "Lechuga" /\ last.args.ajuste_planta = 1200
    /\ last.reco.tiempo_ajustado > last.ret[1] * 10000

\* for plants whose factor is 1 (and plants not in the knowledge base)
\* get_recomendacion leaves the factor's effect as calculate_irrigation made it
C29_OnceForFactorOne ==
    (/\ last.op = "render_dashboard" /\ last.path # "rejected"
     /\ last.args.ajuste_planta = 1000)
    => last.reco.tiempo_ajustado
          \in {Min2(60000000, last.ret[1] * 1000 * m) : m \in {8, 10, 11}}

(***************************************************************************)
(* Concurrent callers of calculate_irrigation on the one engine, a step    *)
(* for each statement that reads or writes the engine's state.  A caller's *)
(* frame holds its position and its local variables.                       *)
(***************************************************************************)
Callers == {1, 2}

FrameIdle ==
    [pc |-> "idle", args |-> ArgNormal, tiempo_raw |-> 0, frecuencia_raw |-> 0,
     resultado |-> NoResult, oldest |-> cache_key(ArgNormal), ret |-> NoResult]

\* the callers arrive at a new engine, or at one that has served enough
\* calls to be one entry short of a full cache, or to have a full cache
WarmSizes == {0, CACHE_MAX - 1, CACHE_MAX}

InitConc ==
    /\ centroids = [i \in SimInputs |->
                      [tiempo |-> sim_defuzz("tiempo", i),
                       frecuencia |-> sim_defuzz("frecuencia", i)]]
    /\ \E n \in WarmSizes :
          /\ \E e \in {WarmEngine(n)} : cache = e.cache /\ sim = e.sim
          /\ born = WarmBorn(n)
    /\ last = LastNone
    /\ hist = <<>>
    /\ nops = 0
    /\ history = HistoryInit
    /\ weather = WeatherInit
    /\ frame = [p \in Callers |-> FrameIdle]

\* the statements setting the simulation's inputs, in order, and what
\* follows each
InputSteps ==
    [set_temperatura   |-> [var |-> "temperatura", next |-> "set_humedad_suelo"],
     set_humedad_suelo |-> [var |-> "humedad_suelo", next |-> "set_lluvia"],
     set_lluvia        |-> [var |-> "lluvia", next |-> "set_humedad_aire"],
     set_humedad_aire  |-> [var |-> "humedad_aire", next |-> "set_viento"],
     set_viento        |-> [var |-> "viento", next |-> "compute"]]

Return(p, ret) == frame' = [frame EXCEPT ![p].pc = "done", ![p].ret = ret]

Goto(p, pc) == frame' = [frame EXCEPT ![p].pc = pc]

\* the call is made
Enter(p, args) ==
    /\ frame[p].pc = "idle"
    /\ frame' = [frame EXCEPT ![p].pc = "lookup", ![p].args = args]
    /\ UNCHANGED <<cache, sim, centroids, history, weather, last, hist, nops, born>>

\* lines 180-187: the key, and the test "cache_key in self._cache"
Lookup(p) ==
    /\ frame[p].pc = "lookup"
    /\ IF CacheHas(cache, cache_key(frame[p].args))
       THEN Goto(p, "read_cache")
       ELSE Goto(p, "set_temperatura")
    /\ UNCHANGED <<cache, sim, centroids, history, weather, last, hist, nops, born>>

\* the call ends in an exception nothing catches
Raise(p) == frame' = [frame EXCEPT ![p].pc = "raised"]

\* line 188: self._cache[cache_key], a KeyError if the key is gone
ReadCache(p) ==
    /\ frame[p].pc = "read_cache"
    /\ IF CacheHas(cache, cache_key(frame[p].args))
       THEN Return(p, CacheGet(cache, cache_key(frame[p].args)))
       ELSE Raise(p)
    /\ UNCHANGED <<cache, sim, centroids, history, weather, last, hist, nops, born>>

\* lines 192-196, one statement at a time
SetInput(p) ==
    /\ frame[p].pc \in DOMAIN InputSteps
    /\ \E st \in {InputSteps[frame[p].pc]} :
          /\ sim' = SimSetInput(sim, st.var, Readings(frame[p].args)[st.var])
          /\ Goto(p, st.next)
    /\ UNCHANGED <<cache, centroids, history, weather, last, hist, nops, born>>

\* line 197, and the except branch of lines 204-206
Compute(p) ==
    /\ frame[p].pc = "compute"
    /\ \E cmp \in {SimCompute(sim)} :
          /\ sim' = cmp.sim
          /\ IF cmp.raised THEN Return(p, Fallback) ELSE Goto(p, "check")
    /\ UNCHANGED <<cache, centroids, history, weather, last, hist, nops, born>>

\* lines 200-202
CheckOutputs(p) ==
    /\ frame[p].pc = "check"
    /\ IF "tiempo" \notin DOMAIN sim.output \/ "frecuencia" \notin DOMAIN sim.output
       THEN Return(p, Fallback)
       ELSE Goto(p, "read_tiempo")
    /\ UNCHANGED <<cache, sim, centroids, history, weather, last, hist, nops, born>>

\* line 210
ReadTiempo(p) ==
    /\ frame[p].pc = "read_tiempo"
    /\ frame' = [frame EXCEPT ![p].pc = "read_frecuencia",
                              ![p].tiempo_raw = OutputGet(sim, "tiempo", 150000)]
    /\ UNCHANGED <<cache, sim, centroids, history, weather, last, hist, nops, born>>

\* line 211
ReadFrecuencia(p) ==
    /\ frame[p].pc = "read_frecuencia"
    /\ frame' = [frame EXCEPT ![p].pc = "check_full",
                              ![p].frecuencia_raw = OutputGet(sim, "frecuencia", 20000)]
    /\ UNCHANGED <<cache, sim, centroids, history, weather, last, hist, nops, born>>

\* lines 209, 213-227: the result tuple, and the test
\* "len(self._cache) >= 100"
CheckFull(p) ==
    /\ frame[p].pc = "check_full"
    /\ \E ajuste \in {ClampAjuste(frame[p].args.ajuste_planta)} :
          frame' = [frame EXCEPT
                      ![p].pc = IF Len(cache) >= CACHE_MAX THEN "pick_oldest" ELSE "finish",
                      ![p].resultado =
                          <<AdjustTiempo(frame[p].tiempo_raw, ajuste),
                            AdjustFrecuencia(frame[p].frecuencia_raw, ajuste),
                            get_rule_activations(Readings(frame[p].args))>>]
    /\ UNCHANGED <<cache, sim, centroids, history, weather, last, hist, nops, born>>

\* line 228, the argument: next(iter(self._cache))
PickOldest(p) ==
    /\ frame[p].pc = "pick_oldest"
    /\ IF Len(cache) = 0 THEN Raise(p)
       ELSE frame' = [frame EXCEPT ![p].pc = "evict", ![p].oldest = cache[1].key]
    /\ UNCHANGED <<cache, sim, centroids, history, weather, last, hist, nops, born>>

\* dict.pop(key): the dict without the key
CachePop(c, k) == SelectSeq(c, LAMBDA e : e.key # k)

\* line 228, the call: self._cache.pop(key), a KeyError if the key is gone
Evict(p) ==
    /\ frame[p].pc = "evict"
    /\ IF CacheHas(cache, frame[p].oldest)
       THEN /\ cache' = CachePop(cache, frame[p].oldest)
            /\ Goto(p, "finish")
       ELSE /\ Raise(p)
            /\ UNCHANGED cache
    /\ UNCHANGED <<sim, centroids, history, weather, last, hist, nops, born>>

\* lines 229-231
Finish(p) ==
    /\ frame[p].pc = "finish"
    /\ cache' = CacheSet(cache, cache_key(frame[p].args), frame[p].resultado)
    /\ Return(p, frame[p].resultado)
    /\ UNCHANGED <<sim, centroids, history, weather, last, hist, nops, born>>

NextConc ==
    \E p \in Callers :
        \/ \E args \in ConcArgs : Enter(p, args)
        \/ Lookup(p)
        \/ ReadCache(p)
        \/ SetInput(p)
        \/ Compute(p)
        \/ CheckOutputs(p)
        \/ ReadTiempo(p)
        \/ ReadFrecuencia(p)
        \/ CheckFull(p)
        \/ PickOldest(p)
        \/ Evict(p)
        \/ Finish(p)

SpecConc == InitConc /\ [][NextConc]_vars

\* what a call with these arguments returns on an engine nobody else uses
OwnResult(args) ==
    calculate_irrigation(<<>>, [input |-> <<>>, output |-> <<>>], args).ret

\* C10 as stated: when two callers run calculate_irrigation concurrently
\* with different inputs, each returns the result for its own inputs.
C10_EachCallerOwnResult ==
    \A p \in Callers, q \in Callers :
        (frame[p].pc = "done" /\ frame[q].pc # "idle" /\ frame[p].args # frame[q].args)
        => frame[p].ret = OwnResult(frame[p].args)

\* a caller returns the activations of its own readings with a duration
\* derived from the raw output for the other caller's readings
C10_Witness ==
    \E p \in Callers, q \in Callers :
        /\ frame[p].pc = "done" /\ frame[q].pc = "done"
        /\ frame[p].args # frame[q].args
        /\ frame[q].ret = OwnResult(frame[q].args)
        /\ frame[p].ret[3] = OwnResult(frame[p].args)[3]
        /\ frame[p].tiempo_raw
             = centroids[ClipReadings(Readings(frame[q].args))].tiempo.value
        /\ frame[p].ret[1] # OwnResult(frame[p].args)[1]

\* C11 as stated: in every interleaving of concurrent calls the cache
\* stays within 100 entries and no call raises because another call evicted
\* or inserted an entry in between.
C11_CacheGuarded ==
    /\ Len(cache) <= 100
    /\ \A p \in Callers : frame[p].pc # "raised"

\* both callers stored into a cache that had room for one
C11_Witness ==
    /\ Len(cache) = 101
    /\ \A p \in Callers : frame[p].pc = "done" /\ frame[p].ret = frame[p].resultado

====
